---- MODULE Spec2Model ----
(***************************************************************************)
(* A model of the CalDAV calendar session of openclaw-automation           *)
(* (email_calendar/src/caldav-client.ts, class FastmailCalendarClient):    *)
(* the session fields, the remote calendar store it talks to, the event    *)
(* codec (buildICS / parseCalendarObject) and one action per public        *)
(* method (Spec); the tools/call handler of the MCP dispatch shell around   *)
(* it (SpecShell); the text codec and the date codec on their own         *)
(* (SpecCodec, SpecDates); and the handlers of concurrent tools/call       *)
(* requests interleaving at their awaits (SpecConc).                       *)
(***************************************************************************)
EXTENDS Integers, Sequences, FiniteSets, TLC

VARIABLES
  client,      \* this.client: "null", "created" (new DAVClient, login not done) or "loggedIn"
  calendars,   \* this.calendars: the cached discovery result, a sequence of calendar urls
  tz,          \* the local time zone of the process (local = UTC + tz), fixed for a run
  remote,      \* the server: locator -> stored calendar object, or NoObj
  writes,      \* number of changes the server has accepted so far
  last,        \* the call the caller has just made: its arguments, its outcome and the
               \* requests it issued; op "idle" once the caller has taken the result
  appPassword, \* the shell: whether FASTMAIL_APP_PASSWORD is set (calendar is not null)
  initialized, \* the shell: the mail client has been initialized
  calendarInitialized,   \* the shell: calendar.initialize() has succeeded
  result,      \* the shell: the tools/call request just handled and what it returned
  codecIn,     \* the text handed to the codec
  codecOut,    \* what the codec made of it
  tasks,       \* the shell under concurrent requests: for each of the requests being
               \* handled, where its handler stands and what it holds
  arrived      \* the shell under concurrent requests: requests taken up so far

shell == <<appPassword, initialized, calendarInitialized, result>>
codec == <<codecIn, codecOut>>
conc == <<tasks, arrived>>

vars == <<client, calendars, tz, remote, writes, last, shell, codec, conc>>

\* ------------------------------------------------------------------ bounds

MaxWrites == 1      \* changes the server accepts in one run
MaxText == 3        \* characters in a text handed to the codec
MaxDay == 3         \* the last calendar day an event handed to the date codec lies on
MaxCalls == 3       \* tools/call requests taken up in one run of the concurrent shell

\* ------------------------------------------------------------------ values

None == <<>>
Some(x) == <<x>>
IsSome(o) == o # <<>>
Val(o) == o[1]

\* JavaScript's `a ?? b` on an optional value.
Coalesce(a, b) == IF IsSome(a) THEN a ELSE b

BS == "\\"
NL == "\n"
SEMI == ";"
COMMA == ","
SP == " "

\* One day in model time units (a unit is a quarter of a day).
DayLen == 4

\* A JavaScript Date: a valid instant, or Invalid Date (getTime() is NaN).
Date(t) == [nan |-> FALSE, t |-> t]
InvalidDate == [nan |-> TRUE, t |-> 0]

FloorDiv(a, b) == IF a >= 0 THEN a \div b ELSE -((-a + b - 1) \div b)

\* ------------------------------------------------------------------ text codec

RECURSIVE ReplaceAll(_, _, _)
\* String.prototype.replace(/pat/g, rep): left to right, non-overlapping.
ReplaceAll(s, pat, rep) ==
  IF Len(s) < Len(pat) THEN s
  ELSE IF SubSeq(s, 1, Len(pat)) = pat
       THEN rep \o ReplaceAll(SubSeq(s, Len(pat) + 1, Len(s)), pat, rep)
       ELSE <<Head(s)>> \o ReplaceAll(Tail(s), pat, rep)

escapeICS(text) ==
  ReplaceAll(ReplaceAll(ReplaceAll(ReplaceAll(text,
    <<BS>>, <<BS, BS>>), <<SEMI>>, <<BS, SEMI>>), <<COMMA>>, <<BS, COMMA>>), <<NL>>, <<BS, "n">>)

unescapeICS(text) ==
  ReplaceAll(ReplaceAll(ReplaceAll(ReplaceAll(text,
    <<BS, "n">>, <<NL>>), <<BS, COMMA>>, <<COMMA>>), <<BS, SEMI>>, <<SEMI>>), <<BS, BS>>, <<BS>>)

IsWhite(c) == c \in {SP, NL}

RECURSIVE TrimLeft(_)
TrimLeft(s) == IF s # <<>> /\ IsWhite(Head(s)) THEN TrimLeft(Tail(s)) ELSE s

RECURSIVE TrimRight(_)
TrimRight(s) ==
  IF s # <<>> /\ IsWhite(s[Len(s)]) THEN TrimRight(SubSeq(s, 1, Len(s) - 1)) ELSE s

\* String.prototype.trim
Trim(s) == TrimRight(TrimLeft(s))

\* data.match(/FIELD:(.+?)(?:\r?\n)/): the field's line, when it is there and its
\* value has at least one character; the capture group, else no match.
LineMatch(field) == IF IsSome(field) /\ Val(field) # <<>> THEN field ELSE None

\* ------------------------------------------------------------------ date codec

\* A DTSTART/DTEND value as it stands on the wire:
\*   "utc"   YYYYMMDDTHHmmssZ, v the instant
\*   "float" YYYYMMDDTHHmmss, v the local wall-clock reading
\*   "date"  YYYYMMDD, v the day number
\*   "nanT"  text holding a T whose digits do not parse (parseInt gives NaN)
\*   "nan8"  eight characters that are not digits
\*   "other" any other text (neither eight long nor holding a T)
\*   "empty" no value / no line
Tok(kind, v) == [kind |-> kind, v |-> v]
NoTok == Tok("empty", 0)

formatICSDate(date, dateOnly) ==
  IF dateOnly
  THEN IF date.nan THEN Tok("other", 0) ELSE Tok("date", FloorDiv(date.t, DayLen))
  ELSE IF date.nan THEN Tok("nanT", 0) ELSE Tok("utc", date.t)

\* Date | null as an optional Date.
parseICSDate(dateStr) ==
  CASE dateStr.kind = "empty" -> None
    [] dateStr.kind = "date" -> Some(Date(dateStr.v * DayLen - tz))
    [] dateStr.kind = "nan8" -> Some(InvalidDate)
    [] dateStr.kind = "utc" -> Some(Date(dateStr.v))
    [] dateStr.kind = "float" -> Some(Date(dateStr.v - tz))
    [] dateStr.kind = "nanT" -> Some(InvalidDate)
    [] OTHER -> None

\* ------------------------------------------------------------------ event codec

NoTitle == <<"N", "o", " ", "T", "i", "t", "l", "e">>

\* The text of one calendar object, field by field. uid and status are "" and a
\* text field is None when the object has no such line; dtend is NoTok when it has no
\* DTEND line; dtstartParam is the parameter part of the DTSTART line.
Wire(uid, summary, description, location, param, dtstart, dtend, status, attendees) ==
  [uid |-> uid, summary |-> summary, description |-> description, location |-> location,
   dtstartParam |-> param, dtstart |-> dtstart, dtend |-> dtend, status |-> status,
   attendees |-> attendees]

EmptyWire == Wire("", None, None, None, "", NoTok, NoTok, "", <<>>)

Truthy(optText) == IsSome(optText) /\ Val(optText) # <<>>

\* buildICS: event is [uid, summary, description, location, start, end, allDay,
\* attendees]; description/location/attendees are optional. No STATUS line is written.
buildICS(event) ==
  Wire(event.uid,
       Some(escapeICS(event.summary)),
       IF Truthy(event.description) THEN Some(escapeICS(Val(event.description))) ELSE None,
       IF Truthy(event.location) THEN Some(escapeICS(Val(event.location))) ELSE None,
       IF event.allDay THEN "VALUE=DATE" ELSE "",
       formatICSDate(event.start, event.allDay),
       formatICSDate(event.end, event.allDay),
       "",
       IF IsSome(event.attendees)
       THEN [i \in 1..Len(Val(event.attendees)) |->
              [email |-> Val(event.attendees)[i].email,
               cn |-> IF Truthy(Val(event.attendees)[i].name)
                      THEN Some(escapeICS(Val(Val(event.attendees)[i].name)))
                      ELSE None]]
       ELSE <<>>)

\* A DAVObject as the transport hands it over: url, etag (0 when the server sent
\* none) and data (hasData FALSE when the object carries no text).
DavObject(url, etag, hasData, data) ==
  [url |-> url, etag |-> etag, hasData |-> hasData, data |-> data]

\* parseCalendarObject: CalendarEvent | null as an optional event. The attendee
\* lines are not read.
parseCalendarObject(obj) ==
  IF ~obj.hasData THEN None
  ELSE LET data == obj.data
           summaryMatch == LineMatch(data.summary)
           descMatch == LineMatch(data.description)
           locMatch == LineMatch(data.location)
           startStr == data.dtstart
           allDay == startStr.kind # "empty" /\ data.dtstartParam = "VALUE=DATE"
           endStr == IF data.dtend.kind # "empty" THEN data.dtend ELSE startStr
           start == parseICSDate(startStr)
           end == parseICSDate(endStr)
       IN IF start = None \/ end = None THEN None
          ELSE Some([url |-> obj.url,
                     uid |-> data.uid,
                     etag |-> obj.etag,
                     summary |-> IF IsSome(summaryMatch)
                                 THEN unescapeICS(Trim(Val(summaryMatch))) ELSE NoTitle,
                     description |-> IF IsSome(descMatch)
                                     THEN Some(unescapeICS(Trim(Val(descMatch)))) ELSE None,
                     location |-> IF IsSome(locMatch)
                                  THEN Some(unescapeICS(Trim(Val(locMatch)))) ELSE None,
                     start |-> Val(start),
                     end |-> Val(end),
                     allDay |-> allDay,
                     status |-> data.status])

\* ------------------------------------------------------------------ sorting

\* (a, b) => a.start.getTime() - b.start.getTime(); a NaN result counts as +0.
compareStart(a, b) == IF a.start.nan \/ b.start.nan THEN 0 ELSE a.start.t - b.start.t

RECURSIVE InsertStable(_, _)
\* e placed after every element of the sorted s that does not compare above it.
InsertStable(s, e) ==
  IF s = <<>> THEN <<e>>
  ELSE IF compareStart(s[Len(s)], e) > 0
       THEN InsertStable(SubSeq(s, 1, Len(s) - 1), e) \o <<s[Len(s)]>>
       ELSE s \o <<e>>

RECURSIVE StableSort(_)
StableSort(s) ==
  IF s = <<>> THEN <<>>
  ELSE InsertStable(StableSort(SubSeq(s, 1, Len(s) - 1)), s[Len(s)])

\* The comparator is a consistent one unless an Invalid Date start meets two
\* different valid starts (it compares equal to both).
ConsistentComparator(s) ==
  ~(/\ \E i \in 1..Len(s) : s[i].start.nan
    /\ \E i, j \in 1..Len(s) : ~s[i].start.nan /\ ~s[j].start.nan /\ s[i].start.t # s[j].start.t)

IndexPermutations(n) == {p \in [1..n -> 1..n] : \A i, j \in 1..n : p[i] = p[j] => i = j}

\* Array.prototype.sort with that comparator: the stable sort when the comparator
\* is consistent, else an order the engine is free to choose.
SortOutcomes(s) ==
  IF ConsistentComparator(s) THEN {StableSort(s)}
  ELSE {[i \in 1..Len(s) |-> s[p[i]]] : p \in IndexPermutations(Len(s))}

\* ------------------------------------------------------------------ the server

\* Calendar urls (ids) of the account, as character sequences.
HostAbc == <<"h", "/", "a", "b", "c", "/">>
HostAbcd == <<"h", "/", "a", "b", "c", "/", "d", "/">>
HostX == <<"h", "/", "x", "/">>
ServerCals == {HostAbc, HostAbcd, HostX}

\* Resource names inside a calendar, in the order the server lists them.
Names == <<"e1", "e2">>
NameSet == {Names[i] : i \in 1..Len(Names)}

\* An event url: the calendar it lies in and its resource name.
Locator(cal, name) == [cal |-> cal, name |-> name]
Locators == {Locator(c, n) : c \in ServerCals, n \in NameSet}

Stored(etag, hasData, data) == [exists |-> TRUE, etag |-> etag, hasData |-> hasData, data |-> data]
NoObj == [exists |-> FALSE, etag |-> 0, hasData |-> FALSE, data |-> EmptyWire]

TextA == <<"a">>
TextB == <<"b", SEMI, "c">>

\* The etag the server gives the next version it stores: never one used before.
FreshEtag == writes + 2

\* The server's own reading of a stored object's interval for a time-range
\* filter (times without a zone read as UTC); an object whose times it cannot read is
\* not filtered out.
ServerInstant(tok) ==
  CASE tok.kind \in {"utc", "float"} -> Some(tok.v)
    [] tok.kind = "date" -> Some(tok.v * DayLen)
    [] OTHER -> None

ServerInRange(obj, lo, hi) ==
  LET s == ServerInstant(obj.data.dtstart)
      e == IF obj.data.dtend.kind = "empty" THEN s ELSE ServerInstant(obj.data.dtend)
  IN IF ~obj.hasData \/ s = None \/ e = None THEN TRUE
     ELSE \/ Val(s) < hi /\ Val(e) > lo
          \/ Val(s) = Val(e) /\ lo <= Val(s) /\ Val(s) < hi

\* fetchCalendarObjects({calendar, timeRange}) when the request succeeds: the
\* calendar's objects in range, in the server's listing order.
ObjectsInRange(cal, lo, hi) ==
  LET obj(n) == remote[Locator(cal, n)]
      keep(n) == cal \in ServerCals /\ obj(n).exists /\ ServerInRange(obj(n), lo, hi)
      F[i \in 0..Len(Names)] ==
        IF i = 0 THEN <<>>
        ELSE IF keep(Names[i])
             THEN F[i - 1] \o <<DavObject(Locator(cal, Names[i]), obj(Names[i]).etag,
                                          obj(Names[i]).hasData, obj(Names[i]).data)>>
             ELSE F[i - 1]
  IN F[Len(Names)]

\* fetchCalendarObjects({calendar, objectUrls: [eventUrl]}) when the request
\* succeeds: the object, if the calendar holds one there.
ObjectsAt(cal, eventUrl) ==
  IF eventUrl.cal = cal /\ remote[eventUrl].exists
  THEN <<DavObject(eventUrl, remote[eventUrl].etag, remote[eventUrl].hasData,
                   remote[eventUrl].data)>>
  ELSE <<>>

\* One request as the server sees it. ifMatch is 0 when the header is absent.
Request(method, cal, name, ifMatch, ifNoneMatch) ==
  [method |-> method, cal |-> cal, name |-> name, ifMatch |-> ifMatch,
   ifNoneMatch |-> ifNoneMatch]

\* The server's answer to a PUT: the status and the store after it.
ServerPut(loc, data, ifMatch, ifNoneMatch) ==
  IF client # "loggedIn" THEN [status |-> 401, store |-> remote]
  ELSE IF loc \notin Locators THEN [status |-> 404, store |-> remote]
  ELSE IF ifNoneMatch /\ remote[loc].exists THEN [status |-> 412, store |-> remote]
  ELSE IF ifMatch # 0 /\ (~remote[loc].exists \/ remote[loc].etag # ifMatch)
       THEN [status |-> 412, store |-> remote]
  ELSE [status |-> IF remote[loc].exists THEN 204 ELSE 201,
        store |-> [remote EXCEPT ![loc] = Stored(FreshEtag, TRUE, data)]]

\* The server's answer to a DELETE.
ServerDelete(loc, ifMatch) ==
  IF client # "loggedIn" THEN [status |-> 401, store |-> remote]
  ELSE IF loc \notin Locators \/ ~remote[loc].exists THEN [status |-> 404, store |-> remote]
  ELSE IF ifMatch # 0 /\ remote[loc].etag # ifMatch THEN [status |-> 412, store |-> remote]
  ELSE [status |-> 204, store |-> [remote EXCEPT ![loc] = NoObj]]

\* ------------------------------------------------------------------ call records

NoError == [kind |-> "none", requested |-> None, available |-> None]
Err(kind) == [kind |-> kind, requested |-> None, available |-> None]

\* new Error(`Calendar not found. Requested: ${id}, Available: ${urls}`)
ErrCalendarNotFoundNamed(id, known) ==
  [kind |-> "CalendarNotFound", requested |-> Some(id), available |-> Some(known)]

\* The fields an updateEvent caller may supply; None is a field left out.
Patch(summary, description, location, start, end, allDay) ==
  [summary |-> summary, description |-> description, location |-> location,
   start |-> start, end |-> end, allDay |-> allDay]

EmptyPatch == Patch(None, None, None, None, None, None)

NoLocator == Locator(<<>>, "")

\* What one method call was given and what came of it.
Call(op, calendarId, eventUrl) ==
  [op |-> op, calendarId |-> calendarId, eventUrl |-> eventUrl, etag |-> 0,
   patch |-> EmptyPatch, error |-> NoError, resolved |-> None, events |-> <<>>,
   event |-> None, created |-> None, list |-> <<>>, range |-> <<0, 0>>, failing |-> {},
   reqs |-> <<>>, http |-> 0]

\* The caller holds no result: it is free to make its next call. The caller awaits
\* each call before it makes another.
Idle == Call("idle", None, NoLocator)
CallerReady == last.op = "idle"

NotInitialized(op, calendarId, eventUrl) ==
  [Call(op, calendarId, eventUrl) EXCEPT !.error = Err("NotInitialized")]

\* ------------------------------------------------------------------ calendar lookup

\* String.prototype.includes
Includes(s, t) == \E i \in 0..(Len(s) - Len(t)) : SubSeq(s, i + 1, i + Len(t)) = t

\* Array.prototype.find over the indices whose element passes the test: the first
\* such element, if any.
Find(seq, passing) ==
  IF passing = {} THEN None
  ELSE Some(seq[CHOOSE i \in passing : \A j \in passing : i <= j])

\* this.calendars.find(c => c.url === calendarId)
ExactCalendar(calendarId) ==
  Find(calendars, {i \in 1..Len(calendars) : calendars[i] = calendarId})

\* this.calendars.find(c => c.url.includes(calendarId) || calendarId.includes(c.url))
PartialCalendar(calendarId) ==
  Find(calendars, {i \in 1..Len(calendars) : \/ Includes(calendars[i], calendarId)
                                             \/ Includes(calendarId, calendars[i])})

\* createEvent with the partial match alone (an exact match is one, too).
ResolveForCreatePartialOnly(calendarId) == PartialCalendar(calendarId)

\* createEvent's choice of calendar: the exact match, else the partial match.
ResolveForCreate(calendarId) ==
  IF IsSome(ExactCalendar(calendarId)) THEN ExactCalendar(calendarId)
  ELSE PartialCalendar(calendarId)

\* ------------------------------------------------------------------ initialize

\* What a discovery may return: the account's calendars, in the server's order.
DiscoveryLists == {<<HostAbc>>, <<HostAbcd, HostAbc>>, <<HostAbc, HostAbcd, HostX>>}

\* initialize(): a fresh client replaces this.client before login is tried; the
\* calendar cache is replaced only when login and discovery both succeed, and a
\* failure of either is thrown on.
InitializeCall(loginOk, discoveryOk) ==
  [Call("initialize", None, NoLocator) EXCEPT
     !.error = IF ~loginOk THEN Err("LoginFailed")
               ELSE IF ~discoveryOk THEN Err("DiscoveryFailed")
               ELSE NoError,
     !.reqs = IF loginOk
              THEN <<Request("LOGIN", <<>>, "", 0, FALSE), Request("PROPFIND", <<>>, "", 0, FALSE)>>
              ELSE <<Request("LOGIN", <<>>, "", 0, FALSE)>>]

initialize ==
  \E outcome \in {<<"loginFails", <<>>>>, <<"discoveryFails", <<>>>>}
                 \cup {<<"ok", d>> : d \in DiscoveryLists} :
    /\ CallerReady
    /\ client' = IF outcome[1] = "loginFails" THEN "created" ELSE "loggedIn"
    /\ calendars' = IF outcome[1] = "ok" THEN outcome[2] ELSE calendars
    /\ last' = InitializeCall(outcome[1] # "loginFails", outcome[1] = "ok")
    /\ UNCHANGED <<tz, remote, writes, shell, codec, conc>>

\* ------------------------------------------------------------------ listCalendars

ListCalendarsCall ==
  IF client = "null" THEN NotInitialized("listCalendars", None, NoLocator)
  ELSE [Call("listCalendars", None, NoLocator) EXCEPT !.list = calendars]

listCalendars ==
  /\ CallerReady
  /\ last' = ListCalendarsCall
  /\ UNCHANGED <<client, calendars, tz, remote, writes, shell, codec, conc>>

\* ------------------------------------------------------------------ listEvents

Range(seq) == {seq[i] : i \in 1..Len(seq)}

RECURSIVE ParseAll(_)
\* for (const obj of objects) { event = parse(obj); if (event) push(event) }
ParseAll(objects) ==
  IF objects = <<>> THEN <<>>
  ELSE parseCalendarObject(Head(objects)) \o ParseAll(Tail(objects))

\* A fetch on a calendar fails when the transport fails for it, and always on a
\* client that never logged in.
FetchFails(cal, failing) == client # "loggedIn" \/ cal \in failing

RECURSIVE ListLoop(_, _, _, _)
\* The loop over calendarsToQuery: a failed fetch is caught and the loop goes on.
\* raised: an error left the loop; queried: the calendars a request was sent for.
ListLoop(cals, failing, lo, hi) ==
  IF cals = <<>> THEN [raised |-> FALSE, events |-> <<>>, queried |-> <<>>]
  ELSE LET rest == ListLoop(Tail(cals), failing, lo, hi)
           got == IF FetchFails(Head(cals), failing) THEN <<>>
                  ELSE ParseAll(ObjectsInRange(Head(cals), lo, hi))
       IN [raised |-> rest.raised, events |-> got \o rest.events,
           queried |-> <<Head(cals)>> \o rest.queried]

\* The filter of listEvents matching by containment as createEvent does.
CalendarsToQueryPartial(calendarId) ==
  IF Truthy(calendarId)
  THEN SelectSeq(calendars, LAMBDA c : \/ c = Val(calendarId)
                                       \/ Includes(c, Val(calendarId))
                                       \/ Includes(Val(calendarId), c))
  ELSE calendars

\* options.calendarId ? this.calendars.filter(c => c.url === id) : this.calendars
CalendarsToQuery(calendarId) ==
  IF Truthy(calendarId) THEN SelectSeq(calendars, LAMBDA c : c = Val(calendarId))
  ELSE calendars

\* listEvents, also as the body of getTodaysEvents and getUpcomingEvents (op).
\* The outcomes of one listEvents call: one for each order the sort may give.
ListEventsResults(op, calendarId, lo, hi, failing) ==
  IF client = "null" THEN {NotInitialized(op, calendarId, NoLocator)}
  ELSE LET loop == ListLoop(CalendarsToQuery(calendarId), failing, lo, hi)
       IN {[Call(op, calendarId, NoLocator) EXCEPT
              !.range = <<lo, hi>>,
              !.error = IF loop.raised THEN Err("Transport") ELSE NoError,
              !.events = IF loop.raised THEN <<>> ELSE sorted,
              !.list = loop.queried,
              !.failing = failing,
              !.reqs = [i \in 1..Len(loop.queried) |->
                          Request("REPORT", loop.queried[i], "", 0, FALSE)]] :
           sorted \in SortOutcomes(loop.events)}

ListEventsCall(op, calendarId, lo, hi, failing) ==
  last' \in ListEventsResults(op, calendarId, lo, hi, failing)

\* Calendar ids a caller may name: the known urls, a fragment of one, one with a
\* trailing segment added, and one that matches nothing.
Abc == <<"a", "b", "c">>
HostXMore == <<"h", "/", "x", "/", "y">>
Nowhere == <<"z">>
RequestedIds == ServerCals \cup {Abc, HostXMore, Nowhere}

\* Time ranges a caller asks for, and the readings of the clock.
Ranges == {<<0, 12>>, <<4, 6>>}
Nows == {5}
DaysAhead == {1, 7}

listEvents ==
  \E calendarId \in {None, Some(HostAbc), Some(Abc)}, r \in Ranges,
     failing \in SUBSET Range(calendars) :
    /\ CallerReady
    /\ failing \subseteq Range(CalendarsToQuery(calendarId))
    /\ (client = "null" \/ client = "created") => failing = {}
    /\ ListEventsCall("listEvents", calendarId, r[1], r[2], failing)
    /\ UNCHANGED <<client, calendars, tz, remote, writes, shell, codec, conc>>

\* today.setHours(0, 0, 0, 0): the local midnight at or before now.
LocalMidnight(now) == FloorDiv(now + tz, DayLen) * DayLen - tz

getTodaysEvents ==
  \E now \in Nows, failing \in SUBSET Range(calendars) :
    /\ CallerReady
    /\ (client = "null" \/ client = "created") => failing = {}
    /\ ListEventsCall("getTodaysEvents", None, LocalMidnight(now),
                      LocalMidnight(now) + DayLen, failing)
    /\ UNCHANGED <<client, calendars, tz, remote, writes, shell, codec, conc>>

getUpcomingEvents ==
  \E now \in Nows, days \in DaysAhead, failing \in SUBSET Range(calendars) :
    /\ CallerReady
    /\ (client = "null" \/ client = "created") => failing = {}
    /\ ListEventsCall("getUpcomingEvents", None, now, now + days * DayLen, failing)
    /\ UNCHANGED <<client, calendars, tz, remote, writes, shell, codec, conc>>

\* ------------------------------------------------------------------ getEvent

\* The (calendarId, eventUrl) pairs a caller names: each calendar with an event
\* url in it, an event url under another calendar's id, and ids that are not
\* calendar urls.
Targets ==
  {<<l.cal, l>> : l \in {Locator(HostAbc, "e1"), Locator(HostAbc, "e2"), Locator(HostX, "e1")}}
  \cup {<<Abc, Locator(HostAbc, "e1")>>, <<Abc, Locator(HostAbc, "e2")>>, <<HostXMore, Locator(HostX, "e2")>>,
         <<Nowhere, Locator(HostAbcd, "e2")>>, <<HostAbc, Locator(HostAbcd, "e1")>>}

\* The try block of getEvent: the decoded object at eventUrl, or null when the
\* fetch throws, returns nothing or returns an object that does not decode.
FetchEvent(calendar, eventUrl, netOk) ==
  IF ~netOk \/ client # "loggedIn" THEN None
  ELSE IF ObjectsAt(calendar, eventUrl) # <<>>
       THEN parseCalendarObject(ObjectsAt(calendar, eventUrl)[1])
       ELSE None

GetEventCall(calendarId, eventUrl, netOk) ==
  IF client = "null" THEN NotInitialized("getEvent", Some(calendarId), eventUrl)
  ELSE IF ExactCalendar(calendarId) = None
       THEN [Call("getEvent", Some(calendarId), eventUrl) EXCEPT
               !.error = Err("CalendarNotFound")]
  ELSE [Call("getEvent", Some(calendarId), eventUrl) EXCEPT
          !.resolved = ExactCalendar(calendarId),
          !.event = FetchEvent(calendarId, eventUrl, netOk),
          !.reqs = <<Request("REPORT", calendarId, eventUrl.name, 0, FALSE)>>]

getEvent ==
  \E target \in Targets, netOk \in BOOLEAN :
    /\ CallerReady
    /\ (client # "loggedIn" \/ ExactCalendar(target[1]) = None) => netOk
    /\ last' = GetEventCall(target[1], target[2], netOk)
    /\ UNCHANGED <<client, calendars, tz, remote, writes, shell, codec, conc>>

\* ------------------------------------------------------------------ createEvent

Attendee(email, name) == [email |-> email, name |-> name]

\* What a createEvent caller supplies besides the calendar id.
NewEvent(summary, description, location, start, end, allDay, attendees) ==
  [summary |-> summary, description |-> description, location |-> location,
   start |-> start, end |-> end, allDay |-> allDay, attendees |-> attendees]

CreateInputs ==
  {NewEvent(TextA, Some(TextB), None, Date(5), Date(6), FALSE,
            Some(<<Attendee("x@y", Some(TextA))>>)),
   NewEvent(TextB, None, Some(TextA), Date(DayLen - tz), Date(DayLen - tz), TRUE, None)}

\* Values generateUID() yields; the object is stored under that name.
NewUids == {"e2"}

\* createEventInCalendar: the object is built and PUT as <uid>.ics with
\* If-None-Match: *; a transport failure is thrown on, any response is success.
CreateInCalendar(call, calendar, options, uid, netOk) ==
  LET loc == Locator(calendar, uid)
      ics == buildICS([uid |-> uid] @@ options)
      answer == ServerPut(loc, ics, 0, TRUE)
  IN IF ~netOk
     THEN [call |-> [call EXCEPT !.resolved = Some(calendar), !.error = Err("Transport"),
                                 !.reqs = <<Request("PUT", calendar, uid, 0, TRUE)>>],
           store |-> remote]
     ELSE [call |-> [call EXCEPT !.resolved = Some(calendar),
                                 !.created = Some([eventUrl |-> loc, uid |-> uid]),
                                 !.reqs = <<Request("PUT", calendar, uid, 0, TRUE)>>,
                                 !.http = answer.status],
           store |-> answer.store]

CreateEventCall(calendarId, options, uid, netOk) ==
  LET call == Call("createEvent", Some(calendarId), NoLocator)
  IN IF client = "null"
     THEN [call |-> NotInitialized("createEvent", Some(calendarId), NoLocator),
           store |-> remote]
     ELSE IF ResolveForCreate(calendarId) = None
          THEN [call |-> [call EXCEPT !.error = ErrCalendarNotFoundNamed(calendarId, calendars)],
                store |-> remote]
          ELSE CreateInCalendar(call, Val(ResolveForCreate(calendarId)), options, uid, netOk)

\* A step that changes the store counts against MaxWrites.
Commit(outcome) ==
  /\ CallerReady
  /\ outcome.store # remote => writes < MaxWrites
  /\ last' = outcome.call
  /\ remote' = outcome.store
  /\ writes' = IF outcome.store # remote THEN writes + 1 ELSE writes
  /\ UNCHANGED <<client, calendars, tz, shell, codec, conc>>

createEvent ==
  \E calendarId \in RequestedIds, options \in CreateInputs, uid \in NewUids,
     netOk \in BOOLEAN :
    /\ Commit(CreateEventCall(calendarId, options, uid, netOk))

\* ------------------------------------------------------------------ updateEvent

\* The merge of updateEvent drawing a uid of its own for the object it writes.
MergeUpdateNewUid(existing, patch) ==
  [uid |-> "u0",
   summary |-> IF IsSome(patch.summary) THEN Val(patch.summary) ELSE existing.summary,
   description |-> Coalesce(patch.description, existing.description),
   location |-> Coalesce(patch.location, existing.location),
   start |-> IF IsSome(patch.start) THEN Val(patch.start) ELSE existing.start,
   end |-> IF IsSome(patch.end) THEN Val(patch.end) ELSE existing.end,
   allDay |-> IF IsSome(patch.allDay) THEN Val(patch.allDay) ELSE existing.allDay,
   attendees |-> None]

\* The merge of updateEvent: a supplied field wins, else the fetched one stays.
\* The merged object has no status and no attendees.
MergeUpdate(existing, patch) ==
  [uid |-> existing.uid,
   summary |-> IF IsSome(patch.summary) THEN Val(patch.summary) ELSE existing.summary,
   description |-> Coalesce(patch.description, existing.description),
   location |-> Coalesce(patch.location, existing.location),
   start |-> IF IsSome(patch.start) THEN Val(patch.start) ELSE existing.start,
   end |-> IF IsSome(patch.end) THEN Val(patch.end) ELSE existing.end,
   allDay |-> IF IsSome(patch.allDay) THEN Val(patch.allDay) ELSE existing.allDay,
   attendees |-> None]

\* etag: options.etag || existingEvent.etag
UpdateEtag(etag, existing) == IF etag # 0 THEN etag ELSE existing.etag

\* this.calendars.find(c => c.url === options.calendarId) of updateEvent.
ResolveForUpdate(calendarId) == ExactCalendar(calendarId)

\* updateEvent from the merge on: the merged object is PUT with If-Match; a
\* transport failure is thrown on and any response is success.
UpdateWrite(call, eventUrl, etag, patch, existing, putOk) ==
  LET ics == buildICS(MergeUpdate(existing, patch))
      ifMatch == UpdateEtag(etag, existing)
      put == Request("PUT", eventUrl.cal, eventUrl.name, ifMatch, FALSE)
      answer == ServerPut(eventUrl, ics, ifMatch, FALSE)
  IN IF ~putOk
     THEN [call |-> [call EXCEPT !.event = Some(existing), !.error = Err("Transport"),
                                 !.reqs = call.reqs \o <<put>>],
           store |-> remote]
     ELSE [call |-> [call EXCEPT !.event = Some(existing), !.reqs = call.reqs \o <<put>>,
                                 !.http = answer.status],
           store |-> answer.store]

UpdateEventCall(calendarId, eventUrl, etag, patch, getOk, putOk) ==
  LET call == [Call("updateEvent", Some(calendarId), eventUrl) EXCEPT
                 !.etag = etag, !.patch = patch]
      got == GetEventCall(calendarId, eventUrl, getOk)
  IN IF client = "null"
     THEN [call |-> [call EXCEPT !.error = Err("NotInitialized")], store |-> remote]
     ELSE IF ResolveForUpdate(calendarId) = None
     THEN [call |-> [call EXCEPT !.error = Err("CalendarNotFound")], store |-> remote]
     ELSE IF got.error # NoError
     THEN [call |-> [call EXCEPT !.error = got.error], store |-> remote]
     ELSE IF got.event = None
     THEN [call |-> [call EXCEPT !.resolved = ResolveForUpdate(calendarId),
                                 !.error = Err("EventNotFound"),
                                 !.reqs = got.reqs],
           store |-> remote]
     ELSE UpdateWrite([call EXCEPT !.resolved = ResolveForUpdate(calendarId),
                                   !.reqs = got.reqs],
                      eventUrl, etag, patch, Val(got.event), putOk)

Patches ==
  {EmptyPatch,
   Patch(Some(TextB), Some(TextA), None, None, None, None),
   Patch(None, None, Some(TextB), Some(Date(1)), Some(Date(2)), Some(FALSE))}

\* Etags a caller may hold; 0 is none.
CallerEtags == 0..(MaxWrites + 1)

updateEvent ==
  \E target \in Targets, etag \in CallerEtags, patch \in Patches,
     getOk \in BOOLEAN, putOk \in BOOLEAN :
    /\ etag # 0 => patch = CHOOSE p \in Patches : IsSome(p.summary)
    /\ ~(getOk /\ putOk) => (etag = 0 /\ patch = EmptyPatch /\ (getOk \/ putOk))
    /\ Commit(UpdateEventCall(target[1], target[2], etag, patch, getOk, putOk))

\* ------------------------------------------------------------------ deleteEvent

\* deleteEvent past its guard: no calendar is looked up; the DELETE goes to
\* eventUrl with the caller's etag (etag || ''), a transport failure is thrown on
\* and any response is success.
DeleteRequest(calendarId, eventUrl, etag, netOk) ==
  LET call == [Call("deleteEvent", Some(calendarId), eventUrl) EXCEPT !.etag = etag]
      del == Request("DELETE", eventUrl.cal, eventUrl.name, etag, FALSE)
      answer == ServerDelete(eventUrl, etag)
  IN IF ~netOk
     THEN [call |-> [call EXCEPT !.error = Err("Transport"), !.reqs = <<del>>],
           store |-> remote]
     ELSE [call |-> [call EXCEPT !.reqs = <<del>>, !.http = answer.status],
           store |-> answer.store]

\* deleteEvent without its guard on this.client.
DeleteEventCallUnguarded(calendarId, eventUrl, etag, netOk) ==
  DeleteRequest(calendarId, eventUrl, etag, netOk)

DeleteEventCall(calendarId, eventUrl, etag, netOk) ==
  IF client = "null"
  THEN [call |-> [NotInitialized("deleteEvent", Some(calendarId), eventUrl) EXCEPT
                    !.etag = etag],
        store |-> remote]
  ELSE DeleteRequest(calendarId, eventUrl, etag, netOk)

deleteEvent ==
  \E target \in Targets, etag \in CallerEtags, netOk \in BOOLEAN :
    /\ ~netOk => etag = 0
    /\ Commit(DeleteEventCall(target[1], target[2], etag, netOk))

\* ------------------------------------------------------------------ the system

TimeZones == {0, 1}

SomeAttendee == [email |-> "x@y", cn |-> Some(TextA)]

\* The store at the start: a full event (status, attendee, escaped text) and an
\* event of another calendar that starts at the same instant and has no SUMMARY
\* line, a later event, a free name, and two objects as other clients may have left
\* them: a start that is no date, and no start at all.
RemoteAtStart ==
  [l \in Locators |->
     CASE l = Locator(HostAbc, "e1") ->
            Stored(1, TRUE, Wire("u1", Some(TextA), Some(escapeICS(TextB)), None, "",
                                 Tok("utc", 1), Tok("utc", 2), "CONFIRMED", <<SomeAttendee>>))
       [] l = Locator(HostAbcd, "e1") ->
            Stored(1, TRUE, Wire("u2", None, None, Some(TextA), "",
                                 Tok("utc", 1), Tok("utc", 3), "", <<>>))
       [] l = Locator(HostAbcd, "e2") ->
            Stored(1, TRUE, Wire("u3", Some(TextA), None, None, "",
                                 Tok("utc", 5), Tok("utc", 6), "", <<>>))
       [] l = Locator(HostX, "e1") ->
            Stored(1, TRUE, Wire("u4", Some(TextA), None, None, "",
                                 Tok("nanT", 0), Tok("utc", 6), "", <<>>))
       [] l = Locator(HostX, "e2") ->
            Stored(1, TRUE, Wire("u5", Some(TextA), None, None, "",
                                 NoTok, Tok("utc", 6), "", <<>>))
       [] OTHER -> NoObj]

InitRemotes == {RemoteAtStart}

\* The session as the constructor leaves it, against any of the stores.
\* One tools/call request and what the handler has made of it so far:
\*   pc       where the handler stands: "ensure" (await ensureInitialized()),
\*            "ensureCalendar" (await ensureCalendarInitialized()), "body" (the case
\*            of the switch), "done" (it has returned), "idle" (no request)
\*   isError  the isError flag of the returned payload (absent counts as FALSE)
\*   text     the message of the payload when it is an error
\*   caught   the payload was made by the catch of the handler ("Error: " + message)
\*   uncaught an exception left the handler
\*   calls    the calls made on the mail client and on the calendar session, in
\*            order, each with whether it threw
\*   body     the payload when it is not an error
ToolsCall(tool, args) ==
  [tool |-> tool, args |-> args, pc |-> "ensure", isError |-> FALSE, text |-> "",
   caught |-> FALSE, uncaught |-> FALSE, calls |-> <<>>, body |-> <<>>]

\* The requests the shell may be handling at once.
Procs == {1, 2}

\* A handler with no request.
NoTask == [pc |-> "idle"]
NoTasks == [p \in Procs |-> NoTask]

\* No tools/call request handled yet.
NoResult == [ToolsCall("none", <<>>) EXCEPT !.pc = "idle"]

Init ==
  /\ client = "null"
  /\ calendars = <<>>
  /\ tz \in TimeZones
  /\ remote \in InitRemotes
  /\ writes = 0
  /\ last = Idle
  /\ appPassword = TRUE
  /\ initialized = FALSE
  /\ calendarInitialized = FALSE
  /\ result = NoResult
  /\ codecIn = <<>>
  /\ codecOut = <<>>
  /\ tasks = NoTasks
  /\ arrived = 0

\* The caller takes the result of its call; the session is not touched.
return ==
  /\ ~CallerReady
  /\ last' = Idle
  /\ UNCHANGED <<client, calendars, tz, remote, writes, shell, codec, conc>>

Next ==
  \/ initialize
  \/ listCalendars
  \/ listEvents
  \/ getTodaysEvents
  \/ getUpcomingEvents
  \/ getEvent
  \/ createEvent
  \/ updateEvent
  \/ deleteEvent
  \/ return

Spec == Init /\ [][Next]_vars

\* ------------------------------------------------------------------ the text codec

\* Ordinary characters and the four escapeICS rewrites.
Alphabet == {"a", "n", BS, SEMI, COMMA, NL}

RECURSIVE TextsOfLength(_)
TextsOfLength(n) ==
  IF n = 0 THEN {<<>>}
  ELSE {<<c>> \o t : c \in Alphabet, t \in TextsOfLength(n - 1)}

Texts == UNION {TextsOfLength(n) : n \in 0..MaxText}

NotRun == [op |-> "none"]

\* An event carrying text in its three free-text fields, written by buildICS and
\* read back by parseCalendarObject.
EncodeDecode(text) ==
  LET event == [uid |-> "u9"] @@
                 NewEvent(text, Some(text), Some(text), Date(1), Date(2), FALSE, None)
      url == Locator(HostAbc, "e1")
  IN [op |-> "roundTrip",
      escaped |-> escapeICS(text),
      unescaped |-> unescapeICS(escapeICS(text)),
      uid |-> event.uid,
      event |-> parseCalendarObject(DavObject(url, 1, TRUE, buildICS(event)))]

roundTrip ==
  /\ codecOut = NotRun
  /\ codecOut' = EncodeDecode(codecIn)
  /\ UNCHANGED <<client, calendars, tz, remote, writes, last, shell, codecIn, conc>>

InitCodec ==
  /\ client = "null"
  /\ calendars = <<>>
  /\ tz \in TimeZones
  /\ remote \in InitRemotes
  /\ writes = 0
  /\ last = Idle
  /\ appPassword = TRUE
  /\ initialized = FALSE
  /\ calendarInitialized = FALSE
  /\ result = NoResult
  /\ codecIn \in Texts
  /\ codecOut = NotRun
  /\ tasks = NoTasks
  /\ arrived = 0

NextCodec == roundTrip

SpecCodec == InitCodec /\ [][NextCodec]_vars

\* ------------------------------------------------------------------ the date codec

\* Offsets of the local time zone from UTC: west of it, on it, east of it.
Offsets == {-1, 0, 1}

\* The local midnight that begins calendar day d: new Date(year, month, day).
MidnightOf(d) == Date(d * DayLen - tz)

\* Events handed to the codec: an all-day event from the local midnight of a day
\* to that same midnight, and events with a start and an end instant.
DatedEvents ==
  {NewEvent(TextA, None, None, MidnightOf(d), MidnightOf(d), TRUE, None) : d \in 0..MaxDay}
  \cup {NewEvent(TextA, None, None, Date(t), Date(t + len), FALSE, None) :
          t \in 0..(MaxDay * DayLen), len \in {0, 1}}

\* The event written by buildICS and read back by parseCalendarObject.
dateRoundTrip ==
  /\ codecOut = NotRun
  /\ codecOut' = [op |-> "dateRoundTrip",
                  wire |-> buildICS([uid |-> "u9"] @@ codecIn),
                  event |-> parseCalendarObject(
                              DavObject(Locator(HostAbc, "e1"), 1, TRUE,
                                        buildICS([uid |-> "u9"] @@ codecIn)))]
  /\ UNCHANGED <<client, calendars, tz, remote, writes, last, shell, codecIn, conc>>

InitDates ==
  /\ client = "null"
  /\ calendars = <<>>
  /\ tz \in Offsets
  /\ remote \in InitRemotes
  /\ writes = 0
  /\ last = Idle
  /\ appPassword = TRUE
  /\ initialized = FALSE
  /\ calendarInitialized = FALSE
  /\ result = NoResult
  /\ codecIn \in DatedEvents
  /\ codecOut = NotRun
  /\ tasks = NoTasks
  /\ arrived = 0

NextDates == dateRoundTrip

SpecDates == InitDates /\ [][NextDates]_vars

\* ------------------------------------------------------------------ the scheduling detector

\* String.prototype.toLowerCase, on the capital letters the mails use.
toLowerCase(text) ==
  [i \in 1..Len(text) |->
     LET c == text[i] IN CASE c = "B" -> "b" [] c = "C" -> "c" [] c = "H" -> "h" [] c = "M" -> "m" [] OTHER -> c]

\* schedulingKeywords, in part: plain keywords, looked up with includes.
schedulingKeywords ==
  <<<<"m", "e", "e", "t", "i", "n", "g">>,
    <<"c", "a", "l", "l">>,
    <<"b", "o", "o", "k">>,
    <<"a", "m">>,
    <<"p", "m">>,
    <<":", "3", "0">>>>

IsDigit(c) == c \in {"0", "1", "2", "3", "4", "5", "6", "7", "8", "9"}

\* The literal lit stands in text at position i.
MatchAt(text, i, lit) ==
  i >= 1 /\ i + Len(lit) - 1 <= Len(text) /\ SubSeq(text, i, i + Len(lit) - 1) = lit

DigitAt(text, i) == i >= 1 /\ i <= Len(text) /\ IsDigit(text[i])

\* \s* matches text from position i up to position j - 1.
Gap(text, i, j) == i <= j /\ j <= Len(text) + 1 /\ \A k \in i..(j - 1) : IsWhite(text[k])

Positions(text) == 1..(Len(text) + 1)

\* The keyword 'does .* work', tested as a regular expression: "." matches no
\* line break.
DoesWork(text) ==
  \E i, j \in Positions(text) :
    /\ MatchAt(text, i, <<"d", "o", "e", "s", SP>>)
    /\ j >= i + 5
    /\ MatchAt(text, j, <<SP, "w", "o", "r", "k">>)
    /\ \A k \in (i + 5)..(j - 1) : text[k] # NL

\* foundKeywords.length: the keywords of the list found in the text.
KeywordCount(fullText) ==
  Len(SelectSeq(schedulingKeywords, LAMBDA kw : Includes(fullText, kw)))
  + (IF DoesWork(fullText) THEN 1 ELSE 0)

May == <<"m", "a", "y">>

\* timePatterns, the month names in part:
\*   1  /\d{1,2}:\d{2}\s*(am|pm)?/i
\*   2  /\d{1,2}\s*(am|pm)/i
\*   3  /\d{1,2}(st|nd|rd|th)?\s*(of)?\s*(...|may|...)/i
\*   4  /(...|may|...)\s*\d{1,2}/i
\*   5  /\d{1,2}\/\d{1,2}(\/\d{2,4})?/
TestPattern(p, text) ==
  CASE p = 1 -> \E i \in Positions(text) :
                  /\ DigitAt(text, i) /\ MatchAt(text, i + 1, <<":">>)
                  /\ DigitAt(text, i + 2) /\ DigitAt(text, i + 3)
    [] p = 2 -> \E i, j \in Positions(text) :
                  /\ DigitAt(text, i) /\ Gap(text, i + 1, j)
                  /\ (MatchAt(text, j, <<"a", "m">>) \/ MatchAt(text, j, <<"p", "m">>))
    [] p = 3 -> \E i, b, d \in Positions(text) :
                  /\ DigitAt(text, i)
                  /\ \E a \in {i + 1} \cup
                       {i + 3 : suffix \in {x \in {<<"s", "t">>, <<"n", "d">>, <<"r", "d">>, <<"t", "h">>} :
                                              MatchAt(text, i + 1, x)}} :
                       /\ Gap(text, a, b)
                       /\ \E c \in {b} \cup (IF MatchAt(text, b, <<"o", "f">>) THEN {b + 2} ELSE {}) :
                            Gap(text, c, d)
                  /\ MatchAt(text, d, May)
    [] p = 4 -> \E i, j \in Positions(text) :
                  MatchAt(text, i, May) /\ Gap(text, i + 3, j) /\ DigitAt(text, j)
    [] p = 5 -> \E i \in Positions(text) :
                  DigitAt(text, i) /\ MatchAt(text, i + 1, <<"/">>) /\ DigitAt(text, i + 2)

timePatterns == <<1, 2, 3, 4, 5>>

\* foundTimePatterns.length
TimePatternCount(fullText) ==
  Len(SelectSeq(timePatterns, LAMBDA p : TestPattern(p, fullText)))

\* The confidence rule with HIGH on the keyword count alone.
confidenceOnKeywords(keywordCount, timePatternCount) ==
  IF keywordCount >= 3 THEN "HIGH"
  ELSE IF keywordCount >= 2 \/ timePatternCount >= 1 THEN "MEDIUM"
  ELSE "LOW"

hasSchedulingIntent(keywordCount, timePatternCount) ==
  keywordCount >= 2 \/ (keywordCount >= 1 /\ timePatternCount >= 1)

confidence(keywordCount, timePatternCount) ==
  IF keywordCount >= 3 /\ timePatternCount >= 1 THEN "HIGH"
  ELSE IF keywordCount >= 2 \/ timePatternCount >= 1 THEN "MEDIUM"
  ELSE "LOW"

\* A mail as getEmail returns it: subject and the value of its first text part,
\* each of which may be missing.
Mail(subject, textBody) == [subject |-> subject, textBody |-> textBody]

\* `${subject}\n${textContent}`.toLowerCase()
FullText(mail) ==
  toLowerCase(Coalesce(mail.subject, Some(<<>>))[1] \o <<NL>>
              \o Coalesce(mail.textBody, Some(<<>>))[1])

\* The payload of detect_scheduling_email for a mail; timePatternCount is what
\* timeReferencesFound is computed from.
Detect(mail) ==
  LET k == KeywordCount(FullText(mail))
      t == TimePatternCount(FullText(mail))
  IN [hasSchedulingIntent |-> hasSchedulingIntent(k, t),
      confidence |-> confidence(k, t),
      keywordCount |-> k,
      timePatternCount |-> t,
      timeReferencesFound |-> t > 0]

\* The mailbox: mail id -> mail. An id outside it names no mail.
Mailbox ==
  <<Mail(Some(<<"H", "i">>), Some(<<"o", "k">>)),
    Mail(Some(<<"C", "a", "l", "l">>), None),
    Mail(None, Some(<<"b", "o", "o", "k", SP, "a", SP, "c", "a", "l", "l">>)),
    Mail(Some(<<"C", "a", "l", "l">>), Some(<<"a", "t", SP, "3", SP, "p", "m">>)),
    Mail(Some(<<"M", "e", "e", "t", "i", "n", "g">>), Some(<<"b", "o", "o", "k", SP, "a", SP, "c", "a", "l", "l", SP, "9", ":", "3", "0">>)),
    Mail(None, Some(<<"4", "/", "5">>)),
    Mail(None, Some(<<"d", "o", "e", "s", SP, "i", "t", SP, "w", "o", "r", "k">>)),
    Mail(None, Some(<<"m", "a", "y", SP, "3">>)),
    Mail(None, Some(<<"3", "r", "d", SP, "o", "f", SP, "m", "a", "y">>)),
    Mail(None, Some(<<"b", "o", "o", "k", SP, "a", SP, "c", "a", "l", "l", SP, "m", "e", "e", "t", "i", "n", "g">>)),
    Mail(None, Some(<<"c", "a", "l", "l", SP, "4", "/", "5">>)),
    Mail(Some(<<"d", "o", "e", "s", SP, "i", "t">>), Some(<<"w", "o", "r", "k">>)),
    Mail(Some(<<"C", "a", "l", "l">>), Some(<<"b", "o", "o", "k", SP, "3", SP, "p", "m">>))>>

MailIds == 1..Len(Mailbox)
NoSuchMail == Len(Mailbox) + 1

\* ------------------------------------------------------------------ the dispatch shell

CalendarTools ==
  {"list_calendars", "list_events", "get_event", "create_event", "update_event",
   "delete_event", "todays_schedule", "upcoming_events", "check_availability"}

\* The handler has made a call on a collaborator; ok is FALSE when the call threw.
Called(r, op, ok, reqs) ==
  [r EXCEPT !.calls = Append(@, [op |-> op, ok |-> ok, reqs |-> reqs])]

\* return { content: [...] }
Returned(r, body) == [r EXCEPT !.pc = "done", !.body = body]

\* return { content: [{ text }], isError: true }
ReturnedError(r, text) == [r EXCEPT !.pc = "done", !.isError = TRUE, !.text = text]

\* The catch of the handler throwing the error on.
CaughtRethrown(r, message) == [r EXCEPT !.pc = "done", !.uncaught = TRUE, !.text = message]

\* catch (error) { return { content: [{ text: `Error: ${error.message}` }], isError: true } }
Caught(r, message) ==
  [r EXCEPT !.pc = "done", !.isError = TRUE, !.caught = TRUE, !.text = message]

\* A call on the calendar session and, when it threw, the catch of the handler.
SessionCall(r, call) == Called(r, call.op, call.error = NoError, call.reqs)
SessionThrew(r, call) == Caught(SessionCall(r, call), call.error.kind)

\* Date.prototype.toISOString throws a RangeError on an Invalid Date.
HasInvalidDate(events) ==
  \E i \in 1..Len(events) : events[i].start.nan \/ events[i].end.nan

\* The slots a check_availability request proposes.
Slots == {<<1, 2>>, <<2, 4>>, <<5, 6>>, <<6, 8>>}
SlotLists ==
  {<<>>} \cup {<<a>> : a \in Slots}
  \cup {<<<<1, 2>>, <<2, 4>>>>, <<<<2, 4>>, <<5, 6>>>>, <<<<6, 8>>, <<2, 4>>>>}

\* The tools/call requests: the tool name and its arguments.
Requests ==
  {ToolsCall("list_mailboxes", <<>>), ToolsCall("no_such_tool", <<>>),
   ToolsCall("list_calendars", <<>>)}
  \cup {ToolsCall("list_events", [calendarId |-> c, range |-> r]) :
          c \in {None, Some(HostAbc)}, r \in Ranges}
  \cup {ToolsCall(t, [calendarId |-> target[1], eventUrl |-> target[2]]) :
          t \in {"get_event", "delete_event"},
          target \in {<<HostAbc, Locator(HostAbc, "e1")>>, <<HostAbcd, Locator(HostAbcd, "e2")>>,
                      <<HostX, Locator(HostX, "e1")>>, <<HostX, Locator(HostX, "e2")>>,
                      <<Abc, Locator(HostAbc, "e1")>>}}
  \cup {ToolsCall("create_event", [calendarId |-> c, options |-> o]) :
          c \in {HostAbcd, Nowhere}, o \in CreateInputs}
  \cup {ToolsCall("update_event", [calendarId |-> target[1], eventUrl |-> target[2], patch |-> p]) :
          target \in {<<HostAbc, Locator(HostAbc, "e1")>>, <<Abc, Locator(HostAbc, "e1")>>},
          p \in Patches}
  \cup {ToolsCall("todays_schedule", [now |-> n]) : n \in Nows}
  \cup {ToolsCall("upcoming_events", [now |-> n, days |-> d]) :
          n \in Nows, d \in {None, Some(1)}}
  \cup {ToolsCall("check_availability", [proposedTimes |-> s]) : s \in SlotLists}
  \cup {ToolsCall("detect_scheduling_email", [emailId |-> m]) : m \in MailIds \cup {NoSuchMail}}
  \cup {ToolsCall("email_to_calendar", [emailId |-> m, calendarId |-> HostAbc, confirm |-> c]) :
          m \in {NoSuchMail, 1, 5}, c \in {None, Some(TRUE), Some(FALSE)}}

\* A tools/call request arrives; the handler awaits each request to its end before
\* the next is taken up here.
receive ==
  /\ result.pc = "idle"
  /\ result' \in Requests
  /\ UNCHANGED <<client, calendars, tz, remote, writes, last, appPassword, initialized,
                 calendarInitialized, codec, conc>>

\* The transport takes the returned payload.
respond ==
  /\ result.pc = "done"
  /\ result' = NoResult
  /\ UNCHANGED <<client, calendars, tz, remote, writes, last, appPassword, initialized,
                 calendarInitialized, codec, conc>>

\* await ensureInitialized() at the head of the handler.
ensureInitialized ==
  /\ result.pc = "ensure"
  /\ LET next == IF result.tool \in CalendarTools THEN "ensureCalendar" ELSE "body"
     IN IF initialized
        THEN result' = [result EXCEPT !.pc = next] /\ UNCHANGED initialized
        ELSE \E ok \in BOOLEAN :
               /\ initialized' = ok
               /\ result' = IF ok
                            THEN [Called(result, "fastmail.initialize", TRUE, <<>>)
                                    EXCEPT !.pc = next]
                            ELSE Caught(Called(result, "fastmail.initialize", FALSE, <<>>),
                                        "MailInitializeFailed")
  /\ UNCHANGED <<client, calendars, tz, remote, writes, last, appPassword,
                 calendarInitialized, codec, conc>>

\* ensureCalendarInitialized without its last check, if (!calendar) throw.
ensureCalendarInitializedUnchecked ==
  /\ result.pc = "ensureCalendar"
  /\ IF ~calendarInitialized /\ appPassword
     THEN \E outcome \in {<<"loginFails", <<>>>>, <<"discoveryFails", <<>>>>}
                         \cup {<<"ok", d>> : d \in DiscoveryLists} :
            LET call == InitializeCall(outcome[1] # "loginFails", outcome[1] = "ok")
            IN /\ client' = IF outcome[1] = "loginFails" THEN "created" ELSE "loggedIn"
               /\ calendars' = IF outcome[1] = "ok" THEN outcome[2] ELSE calendars
               /\ calendarInitialized' = (outcome[1] = "ok")
               /\ result' = IF outcome[1] = "ok"
                            THEN [SessionCall(result, call) EXCEPT !.pc = "body"]
                            ELSE SessionThrew(result, call)
     ELSE /\ result' = [result EXCEPT !.pc = "body"]
          /\ UNCHANGED <<client, calendars, calendarInitialized>>
  /\ UNCHANGED <<tz, remote, writes, last, appPassword, initialized, codec, conc>>

\* await ensureCalendarInitialized() at the head of a calendar tool: the mail
\* client is initialized by now; calendar.initialize() is called until it has
\* succeeded once; without a calendar the feature-disabled error is thrown.
ensureCalendarInitialized ==
  /\ result.pc = "ensureCalendar"
  /\ IF ~calendarInitialized /\ appPassword
     THEN \E outcome \in {<<"loginFails", <<>>>>, <<"discoveryFails", <<>>>>}
                         \cup {<<"ok", d>> : d \in DiscoveryLists} :
            LET call == InitializeCall(outcome[1] # "loginFails", outcome[1] = "ok")
            IN /\ client' = IF outcome[1] = "loginFails" THEN "created" ELSE "loggedIn"
               /\ calendars' = IF outcome[1] = "ok" THEN outcome[2] ELSE calendars
               /\ calendarInitialized' = (outcome[1] = "ok")
               /\ result' = IF outcome[1] = "ok"
                            THEN [SessionCall(result, call) EXCEPT !.pc = "body"]
                            ELSE SessionThrew(result, call)
     ELSE /\ result' = IF ~appPassword
                       THEN Caught(result, "CalendarFeaturesDisabled")
                       ELSE [result EXCEPT !.pc = "body"]
          /\ UNCHANGED <<client, calendars, calendarInitialized>>
  /\ UNCHANGED <<tz, remote, writes, last, appPassword, initialized, codec, conc>>

\* The case of the switch for tool is to run.
InBody(tool) == result.pc = "body" /\ result.tool = tool

\* A case of the switch that leaves the session and the server as they are.
ReadOnly ==
  UNCHANGED <<client, calendars, tz, remote, writes, last, appPassword, initialized,
              calendarInitialized, codec, conc>>

\* A mail tool: one call on the mail client, which may throw.
list_mailboxes ==
  /\ InBody("list_mailboxes")
  /\ \E ok \in BOOLEAN :
       result' = IF ok THEN Returned(Called(result, "fastmail.getMailboxes", TRUE, <<>>), <<>>)
                 ELSE Caught(Called(result, "fastmail.getMailboxes", FALSE, <<>>),
                             "MailRequestFailed")
  /\ ReadOnly

\* default: throw new Error(`Unknown tool: ${name}`)
unknown_tool ==
  /\ result.pc = "body"
  /\ result.tool = "no_such_tool"
  /\ result' = Caught(result, "UnknownTool")
  /\ ReadOnly

list_calendars ==
  /\ InBody("list_calendars")
  /\ LET call == ListCalendarsCall
     IN result' = IF call.error # NoError THEN SessionThrew(result, call)
                  ELSE Returned(SessionCall(result, call), call.list)
  /\ ReadOnly

\* A listing tool: the events are formatted with toISOString.
ListingResult(r, call, head) ==
  IF call.error # NoError THEN SessionThrew(r, call)
  ELSE IF HasInvalidDate(call.events) THEN Caught(SessionCall(r, call), "InvalidTimeValue")
  ELSE Returned(SessionCall(r, call), [head |-> head, count |-> Len(call.events),
                                       events |-> call.events])

FailSets == {{}, {HostAbc}}

list_events ==
  /\ InBody("list_events")
  /\ \E failing \in FailSets :
       \E call \in ListEventsResults("listEvents", result.args.calendarId,
                                     result.args.range[1], result.args.range[2], failing) :
         result' = ListingResult(result, call, <<>>)
  /\ ReadOnly

todays_schedule ==
  /\ InBody("todays_schedule")
  /\ \E failing \in FailSets :
       \E call \in ListEventsResults("getTodaysEvents", None, LocalMidnight(result.args.now),
                                     LocalMidnight(result.args.now) + DayLen, failing) :
         result' = ListingResult(result, call, result.args.now)
  /\ ReadOnly

\* const { days = 7 } = args
upcoming_events ==
  /\ InBody("upcoming_events")
  /\ LET days == Coalesce(result.args.days, Some(7))[1]
     IN \E failing \in FailSets :
          \E call \in ListEventsResults("getUpcomingEvents", None, result.args.now,
                                        result.args.now + days * DayLen, failing) :
            result' = ListingResult(result, call, days)
  /\ ReadOnly

get_event ==
  /\ InBody("get_event")
  /\ \E netOk \in BOOLEAN :
       LET call == GetEventCall(result.args.calendarId, result.args.eventUrl, netOk)
       IN result' = IF call.error # NoError THEN SessionThrew(result, call)
                    ELSE IF call.event = None
                         THEN ReturnedError(SessionCall(result, call), "EventNotFound")
                    ELSE IF HasInvalidDate(call.event)
                         THEN Caught(SessionCall(result, call), "InvalidTimeValue")
                    ELSE Returned(SessionCall(result, call), Val(call.event))
  /\ ReadOnly

\* A case of the switch that writes: what it leaves on the server counts against
\* MaxWrites.
Written(outcome, body) ==
  /\ outcome.store # remote => writes < MaxWrites
  /\ remote' = outcome.store
  /\ writes' = IF outcome.store # remote THEN writes + 1 ELSE writes
  /\ result' = IF outcome.call.error # NoError THEN SessionThrew(result, outcome.call)
               ELSE Returned(SessionCall(result, outcome.call), body)
  /\ UNCHANGED <<client, calendars, tz, last, appPassword, initialized,
                 calendarInitialized, codec, conc>>

create_event ==
  /\ InBody("create_event")
  /\ \E uid \in NewUids, netOk \in BOOLEAN :
       LET outcome == CreateEventCall(result.args.calendarId, result.args.options, uid, netOk)
       IN Written(outcome, [success |-> TRUE, created |-> outcome.call.created])

\* update_event hands over no etag.
update_event ==
  /\ InBody("update_event")
  /\ \E getOk, putOk \in BOOLEAN :
       /\ getOk \/ putOk
       /\ Written(UpdateEventCall(result.args.calendarId, result.args.eventUrl, 0,
                                  result.args.patch, getOk, putOk),
                  [success |-> TRUE])

\* delete_event hands over no etag.
delete_event ==
  /\ InBody("delete_event")
  /\ \E netOk \in BOOLEAN :
       Written(DeleteEventCall(result.args.calendarId, result.args.eventUrl, 0, netOk),
               [success |-> TRUE])

\* fastmail.getEmail(emailId): the mail, null for an id that names none.
GetEmail(emailId) == IF emailId \in MailIds THEN Some(Mailbox[emailId]) ELSE None

detect_scheduling_email ==
  /\ InBody("detect_scheduling_email")
  /\ \E ok \in BOOLEAN :
       LET r == Called(result, "fastmail.getEmail", ok, <<>>)
           email == GetEmail(result.args.emailId)
       IN result' = IF ~ok THEN Caught(r, "MailRequestFailed")
                    ELSE IF email = None THEN ReturnedError(r, "EmailNotFound")
                    ELSE Returned(r, Detect(Val(email)))
  /\ ReadOnly

\* email_to_calendar creating the event itself once confirm is set.
EmailToCalendarCreating(email, confirm) ==
  LET outcome == CreateEventCall(HostAbc,
                                 NewEvent(TextA, None, None, Date(5), Date(6), FALSE, None),
                                 "e2", TRUE)
  IN IF confirm /\ appPassword
     THEN [status |-> "created",
           extractedInfo |-> [subject |-> email.subject, textContent |-> email.textBody],
           sessionCalls |-> <<[op |-> outcome.call.op, ok |-> outcome.call.error = NoError,
                               reqs |-> outcome.call.reqs]>>,
           store |-> outcome.store]
     ELSE [status |-> "preview",
           extractedInfo |-> [subject |-> email.subject, textContent |-> email.textBody],
           sessionCalls |-> <<>>,
           store |-> remote]

\* email_to_calendar once the mail is there: no detector is run; the status is
\* needs_parsing when confirm is set and there is a calendar, preview otherwise.
\* Nothing is asked of the calendar session.
EmailToCalendar(email, confirm) ==
  [status |-> IF confirm /\ appPassword THEN "needs_parsing" ELSE "preview",
   extractedInfo |-> [subject |-> email.subject, textContent |-> email.textBody],
   sessionCalls |-> <<>>,
   store |-> remote]

\* const { emailId, calendarId, confirm = false } = args
email_to_calendar ==
  /\ InBody("email_to_calendar")
  /\ \E ok \in BOOLEAN :
       LET r == Called(result, "fastmail.getEmail", ok, <<>>)
           email == GetEmail(result.args.emailId)
           confirm == Coalesce(result.args.confirm, Some(FALSE))[1]
       IN IF ~ok THEN result' = Caught(r, "MailRequestFailed") /\ UNCHANGED remote
          ELSE IF email = None
               THEN result' = ReturnedError(r, "EmailNotFound") /\ UNCHANGED remote
          ELSE LET out == EmailToCalendar(Val(email), confirm)
               IN /\ result' = Returned([r EXCEPT !.calls = @ \o out.sessionCalls],
                                        [status |-> out.status,
                                         extractedInfo |-> out.extractedInfo])
                  /\ remote' = out.store
  /\ UNCHANGED <<client, calendars, tz, writes, last, appPassword, initialized,
                 calendarInitialized, codec, conc>>

\* The overlap test with <= and >=: touching endpoints count.
ConflictsClosed(event, start, end) ==
  /\ ~event.start.nan
  /\ ~event.end.nan
  /\ event.start.t <= end
  /\ event.end.t >= start

\* eventStart < end && eventEnd > start, on Dates: false when either is Invalid Date.
Conflicts(event, start, end) ==
  /\ ~event.start.nan
  /\ ~event.end.nan
  /\ event.start.t < end
  /\ event.end.t > start

\* One entry of results; returned is what listEvents gave for the slot.
SlotResult(slot, call) ==
  LET conflicts == SelectSeq(call.events, LAMBDA e : Conflicts(e, slot[1], slot[2]))
  IN [proposedStart |-> slot[1],
      proposedEnd |-> slot[2],
      available |-> Len(conflicts) = 0,
      conflicts |-> [i \in 1..Len(conflicts) |->
                       [summary |-> conflicts[i].summary, start |-> conflicts[i].start,
                        end |-> conflicts[i].end]],
      returned |-> call.events]

\* check_availability counting every entry of results as available.
CheckAvailabilityCountingAll(proposedTimes, listed) ==
  LET results == [i \in 1..Len(proposedTimes) |-> SlotResult(proposedTimes[i], listed[i])]
  IN [totalSlots |-> Len(proposedTimes),
      availableSlots |-> Len(results),
      results |-> results]

\* The payload of check_availability, listed[i] being the listEvents call for slot i.
CheckAvailability(proposedTimes, listed) ==
  LET results == [i \in 1..Len(proposedTimes) |-> SlotResult(proposedTimes[i], listed[i])]
  IN [totalSlots |-> Len(proposedTimes),
      availableSlots |-> Len(SelectSeq(results, LAMBDA r : r.available)),
      results |-> results]

\* The listEvents calls of one check_availability: for each slot, one over all
\* calendars with the slot as range.
SlotListings(proposedTimes, fails) ==
  LET n == Len(proposedTimes)
      of(i) == ListEventsResults("listEvents", None, proposedTimes[i][1],
                                 proposedTimes[i][2], fails[i])
  IN {f \in [1..n -> UNION {of(i) : i \in 1..n}] : \A i \in 1..n : f[i] \in of(i)}

check_availability ==
  /\ InBody("check_availability")
  /\ LET proposedTimes == result.args.proposedTimes
         n == Len(proposedTimes)
     IN \E fails \in [1..n -> FailSets] :
          \E listed \in SlotListings(proposedTimes, fails) :
            LET threw == {i \in 1..n : listed[i].error # NoError}
                made == IF threw = {} THEN n ELSE CHOOSE i \in threw : \A j \in threw : i <= j
                r == [result EXCEPT !.calls = @ \o
                        [i \in 1..made |-> [op |-> listed[i].op,
                                            ok |-> listed[i].error = NoError,
                                            reqs |-> listed[i].reqs]]]
            IN result' = IF threw # {} THEN Caught(r, listed[made].error.kind)
                         ELSE Returned(r, CheckAvailability(proposedTimes, listed))
  /\ ReadOnly

\* The store the shell starts on: RemoteAtStart and an event in floating time that
\* the server places at 2-3.
RemoteForShell ==
  [RemoteAtStart EXCEPT ![Locator(HostAbc, "e2")] =
     Stored(1, TRUE, Wire("u6", Some(TextB), None, None, "",
                          Tok("float", 2), Tok("float", 3), "", <<>>))]

InitShell ==
  /\ client = "null"
  /\ calendars = <<>>
  /\ tz \in TimeZones
  /\ remote = RemoteForShell
  /\ writes = 0
  /\ last = Idle
  /\ appPassword \in BOOLEAN
  /\ initialized = FALSE
  /\ calendarInitialized = FALSE
  /\ result = NoResult
  /\ codecIn = <<>>
  /\ codecOut = NotRun
  /\ tasks = NoTasks
  /\ arrived = 0

NextShell ==
  \/ receive
  \/ ensureInitialized
  \/ ensureCalendarInitialized
  \/ list_mailboxes
  \/ unknown_tool
  \/ list_calendars
  \/ list_events
  \/ get_event
  \/ create_event
  \/ update_event
  \/ delete_event
  \/ todays_schedule
  \/ upcoming_events
  \/ detect_scheduling_email
  \/ email_to_calendar
  \/ check_availability
  \/ respond

SpecShell == InitShell /\ [][NextShell]_vars

\* ------------------------------------------------------------------ concurrent requests

\* The transport hands every tools/call request to the handler as it arrives; a
\* handler runs until its next await, and the handlers of other requests run in
\* between. One step here is one handler running from one await to the next.

\* A request taken up: the handler stands before ensureCalendarInitialized (the
\* mail client is initialized).
\*   own       this.client is still the DAVClient this handler's initialize() made
\*   existing  the event the fetch of updateEvent gave
\*   put       the write request that is under way
\*   replaced  the etag of the version an accepted write replaced
Task(tool, calendarId, eventUrl, options, patch) ==
  [pc |-> "ensureCalendar", tool |-> tool, calendarId |-> calendarId, eventUrl |-> eventUrl,
   options |-> options, patch |-> patch, own |-> FALSE, error |-> NoError, http |-> 0,
   existing |-> None, put |-> None, created |-> None, replaced |-> 0]

\* create_event requests: an event 5-6 and one whose end lies before its start.
ConcCreates ==
  {NewEvent(TextA, None, None, Date(5), Date(6), FALSE, None),
   NewEvent(TextA, None, None, Date(6), Date(5), FALSE, None)}

\* update_event requests: a new summary, a new location, and a new start alone.
ConcPatches ==
  {Patch(Some(TextB), None, None, None, None, None),
   Patch(None, None, Some(TextB), None, None, None),
   Patch(None, None, None, Some(Date(9)), None, None)}

ConcRequests ==
  {Task("create_event", HostAbc, NoLocator, o, EmptyPatch) : o \in ConcCreates}
  \cup {Task("update_event", HostAbc, Locator(HostAbc, "e1"), None, p) : p \in ConcPatches}
  \cup {Task("update_event", HostAbc, Locator(HostAbc, "e2"), None,
              Patch(Some(TextB), None, None, None, None, None))}

\* What a discovery returns here.
ConcDiscoveries == {<<HostAbc>>, <<HostAbcd, HostAbc>>}

\* The handler of p has thrown or returned.
Thrown(t, kind) == [t EXCEPT !.pc = "done", !.error = Err(kind)]

ConcUnchanged == UNCHANGED <<tz, last, appPassword, initialized, result, codec>>

\* A tools/call request arrives while others may be under way.
arrive(p) ==
  /\ tasks[p].pc = "idle"
  /\ arrived < MaxCalls
  /\ \E t \in ConcRequests : tasks' = [tasks EXCEPT ![p] = t]
  /\ arrived' = arrived + 1
  /\ UNCHANGED <<client, calendars, remote, writes, calendarInitialized>>
  /\ ConcUnchanged

\* ensureCalendarInitialized up to its await: when calendarInitialized is not set,
\* initialize() is called, which replaces this.client by a new DAVClient and sends
\* the login.
beginInitialize(p) ==
  /\ tasks[p].pc = "ensureCalendar"
  /\ IF ~calendarInitialized
     THEN /\ client' = "created"
          /\ tasks' = [q \in Procs |->
                         IF q = p THEN [tasks[p] EXCEPT !.pc = "login", !.own = TRUE]
                         ELSE IF tasks[q].pc = "idle" THEN tasks[q]
                         ELSE [tasks[q] EXCEPT !.own = FALSE]]
     ELSE /\ tasks' = [tasks EXCEPT ![p].pc = "call"]
          /\ UNCHANGED client
  /\ UNCHANGED <<calendars, remote, writes, calendarInitialized, arrived>>
  /\ ConcUnchanged

\* await this.client.login() is over: on success fetchCalendars is called on what
\* this.client is by now, which throws on a client that has not logged in.
login(p) ==
  /\ tasks[p].pc = "login"
  /\ \E ok \in BOOLEAN :
       LET now == IF ok /\ tasks[p].own THEN "loggedIn" ELSE client
       IN /\ client' = now
          /\ tasks' = [tasks EXCEPT ![p] =
                         IF ~ok THEN Thrown(@, "LoginFailed")
                         ELSE IF now # "loggedIn" THEN Thrown(@, "DiscoveryFailed")
                         ELSE [@ EXCEPT !.pc = "discover"]]
  /\ UNCHANGED <<calendars, remote, writes, calendarInitialized, arrived>>
  /\ ConcUnchanged

\* await this.client.fetchCalendars() is over: this.calendars is replaced,
\* initialize() returns and calendarInitialized is set.
discover(p) ==
  /\ tasks[p].pc = "discover"
  /\ \/ \E d \in ConcDiscoveries :
          /\ calendars' = d
          /\ calendarInitialized' = TRUE
          /\ tasks' = [tasks EXCEPT ![p].pc = "call"]
     \/ /\ tasks' = [tasks EXCEPT ![p] = Thrown(@, "DiscoveryFailed")]
        /\ UNCHANGED <<calendars, calendarInitialized>>
  /\ UNCHANGED <<client, remote, writes, arrived>>
  /\ ConcUnchanged

\* The write request of a handler: where, what, and under which condition.
Put(loc, ics, ifMatch, ifNoneMatch) ==
  [loc |-> loc, ics |-> ics, ifMatch |-> ifMatch, ifNoneMatch |-> ifNoneMatch]

\* calendar.createEvent(...) or calendar.updateEvent(...) up to its first await:
\* createEvent resolves the calendar, draws the uid, builds the object and sends the
\* PUT; updateEvent resolves the calendar and sends the fetch of getEvent.
callMethod(p) ==
  /\ tasks[p].pc = "call"
  /\ LET t == tasks[p]
     IN IF t.tool = "create_event"
        THEN \E uid \in NewUids :
               tasks' = [tasks EXCEPT ![p] =
                 IF ResolveForCreate(t.calendarId) = None THEN Thrown(t, "CalendarNotFound")
                 ELSE LET loc == Locator(Val(ResolveForCreate(t.calendarId)), uid)
                      IN [t EXCEPT !.pc = "put",
                                   !.created = Some([eventUrl |-> loc, uid |-> uid]),
                                   !.put = Some(Put(loc, buildICS([uid |-> uid] @@ t.options),
                                                    0, TRUE))]]
        ELSE tasks' = [tasks EXCEPT ![p] =
                 IF ResolveForUpdate(t.calendarId) = None THEN Thrown(t, "CalendarNotFound")
                 ELSE [t EXCEPT !.pc = "fetch"]]
  /\ UNCHANGED <<client, calendars, remote, writes, calendarInitialized, arrived>>
  /\ ConcUnchanged

\* The fetch of updateEvent is over: without an event it throws; with one, the
\* merge is built and the PUT is sent with the fetched etag as If-Match.
fetch(p) ==
  /\ tasks[p].pc = "fetch"
  /\ \E netOk \in BOOLEAN :
       LET t == tasks[p]
           got == FetchEvent(t.calendarId, t.eventUrl, netOk)
       IN tasks' = [tasks EXCEPT ![p] =
            IF got = None THEN Thrown(t, "EventNotFound")
            ELSE [t EXCEPT !.pc = "put",
                           !.existing = got,
                           !.put = Some(Put(t.eventUrl,
                                            buildICS(MergeUpdate(Val(got), t.patch)),
                                            UpdateEtag(0, Val(got)), FALSE))]]
  /\ UNCHANGED <<client, calendars, remote, writes, calendarInitialized, arrived>>
  /\ ConcUnchanged

\* The PUT is over: a transport failure is thrown on; any response of the server
\* is taken as success and the handler returns.
put(p) ==
  /\ tasks[p].pc = "put"
  /\ \E netOk \in BOOLEAN :
       LET t == tasks[p]
           req == Val(t.put)
           answer == ServerPut(req.loc, req.ics, req.ifMatch, req.ifNoneMatch)
       IN IF ~netOk
          THEN /\ tasks' = [tasks EXCEPT ![p] = Thrown(t, "Transport")]
               /\ UNCHANGED <<remote, writes>>
          ELSE /\ tasks' = [tasks EXCEPT ![p] =
                              [t EXCEPT !.pc = "done", !.http = answer.status,
                                        !.replaced = IF answer.store # remote
                                                     THEN remote[req.loc].etag ELSE 0]]
               /\ remote' = answer.store
               /\ writes' = IF answer.store # remote THEN writes + 1 ELSE writes
  /\ UNCHANGED <<client, calendars, calendarInitialized, arrived>>
  /\ ConcUnchanged

\* The transport takes the payload of a handler that is done.
reply(p) ==
  /\ tasks[p].pc = "done"
  /\ tasks' = [tasks EXCEPT ![p] = NoTask]
  /\ UNCHANGED <<client, calendars, remote, writes, calendarInitialized, arrived>>
  /\ ConcUnchanged

InitConc ==
  /\ client = "null"
  /\ calendars = <<>>
  /\ tz = 0
  /\ remote = RemoteAtStart
  /\ writes = 0
  /\ last = Idle
  /\ appPassword = TRUE
  /\ initialized = TRUE
  /\ calendarInitialized = FALSE
  /\ result = NoResult
  /\ codecIn = <<>>
  /\ codecOut = NotRun
  /\ tasks = NoTasks
  /\ arrived = 0

NextConc ==
  \E p \in Procs :
    \/ arrive(p)
    \/ beginInitialize(p)
    \/ login(p)
    \/ discover(p)
    \/ callMethod(p)
    \/ fetch(p)
    \/ put(p)
    \/ reply(p)

SpecConc == InitConc /\ [][NextConc]_vars

\* ------------------------------------------------------------------ properties

SessionOps ==
  {"listCalendars", "listEvents", "getEvent", "createEvent", "updateEvent", "deleteEvent",
   "getTodaysEvents", "getUpcomingEvents"}

Mutations == {"createEvent", "updateEvent", "deleteEvent"}

IsWrite(req) == req.method \in {"PUT", "DELETE"}

NoWriteIn(reqs) == \A i \in 1..Len(reqs) : ~IsWrite(reqs[i])

\* The event a refetch of eventUrl decodes, if any.
Refetch(eventUrl) ==
  IF remote[eventUrl].exists
  THEN parseCalendarObject(DavObject(eventUrl, remote[eventUrl].etag,
                                     remote[eventUrl].hasData, remote[eventUrl].data))
  ELSE None

\* The decodable events the store holds in [lo, hi) under the given calendars.
DecodableIn(cals, lo, hi) ==
  {Val(Refetch(l)) : l \in {k \in Locators : /\ k.cal \in cals
                                            /\ remote[k].exists
                                            /\ ServerInRange(remote[k], lo, hi)
                                            /\ Refetch(k) # None}}

\* C1: while initialize() has never been called (this.client is null), each of
\* listCalendars, listEvents, getEvent, createEvent, updateEvent, deleteEvent,
\* getTodaysEvents and getUpcomingEvents fails with the not-initialized error, sends
\* no request, and leaves the client, the calendar cache and the store as they were.
C1_NotInitialized ==
  [][(client = "null" /\ last'.op \in SessionOps) =>
       /\ last'.error.kind = "NotInitialized"
       /\ last'.reqs = <<>>
       /\ client' = "null"
       /\ calendars' = calendars
       /\ remote' = remote]_vars

C1_Witness ==
  /\ client = "null"
  /\ last.op = "getUpcomingEvents"
  /\ last.error.kind = "NotInitialized"

\* C2 (as claimed): after an initialize() whose login was rejected, until an
\* initialize() succeeds, every other operation fails with the not-initialized error.
C2_ReadyOnlyAfterLogin ==
  (client = "created" /\ last.op \in SessionOps) => last.error.kind = "NotInitialized"

\* An object the decoder is to produce an event for: it has a body, and its start
\* token, and its end token when it has one, is a date or a date-time.
HasParsableStart(obj) ==
  /\ obj.exists
  /\ obj.hasData
  /\ obj.data.dtstart.kind \in {"utc", "float", "date"}
  /\ obj.data.dtend.kind \in {"utc", "float", "date", "empty"}

\* C3 (as claimed): listEvents with no calendar filter on a logged-in session does
\* not raise, sends one query to every discovered calendar in discovery order
\* whichever of them fail, and returns exactly the decodable events (those whose
\* start token parses) of the calendars whose fetch succeeded.
C3_ExactlyDecodableOfSucceeded ==
  (last.op = "listEvents" /\ last.calendarId = None /\ client = "loggedIn") =>
    LET succeeded == Range(calendars) \ last.failing
        expected == {e \in DecodableIn(succeeded, last.range[1], last.range[2]) :
                       HasParsableStart(remote[e.url])}
    IN /\ last.error = NoError
       /\ last.list = calendars
       /\ Len(last.reqs) = Len(calendars)
       /\ \A i \in 1..Len(last.reqs) :
            last.reqs[i].method = "REPORT" /\ last.reqs[i].cal = calendars[i]
       /\ Range(last.events) = expected
       /\ Len(last.events) = Cardinality(expected)

\* What does hold of the loop: the same with every object counted for which
\* parseCalendarObject returns an event, an Invalid Date start included.
ListSurvivesFailures ==
  (last.op = "listEvents" /\ last.calendarId = None /\ client = "loggedIn") =>
    LET expected == DecodableIn(Range(calendars) \ last.failing, last.range[1], last.range[2])
    IN /\ last.error = NoError
       /\ last.list = calendars
       /\ Len(last.reqs) = Len(calendars)
       /\ Range(last.events) = expected
       /\ Len(last.events) = Cardinality(expected)

\* a.start <= b.start on Dates (false when either is Invalid Date).
StartLeq(a, b) == ~a.start.nan /\ ~b.start.nan /\ a.start.t <= b.start.t

\* The events of a listEvents call before the sort: calendar by calendar, each in
\* fetch order.
Concatenated(call) ==
  LET cals == CalendarsToQuery(call.calendarId)
      F[i \in 0..Len(cals)] ==
        IF i = 0 THEN <<>>
        ELSE F[i - 1] \o (IF FetchFails(cals[i], call.failing) THEN <<>>
                          ELSE ParseAll(ObjectsInRange(cals[i], call.range[1], call.range[2])))
  IN F[Len(cals)]

\* The only order a stable ascending sort by start can give.
IsStableAscending(sorted, original) ==
  /\ Len(sorted) = Len(original)
  /\ \A i \in 1..(Len(sorted) - 1) : StartLeq(sorted[i], sorted[i + 1])
  /\ \E p \in IndexPermutations(Len(original)) :
       /\ \A i \in 1..Len(original) : sorted[i] = original[p[i]]
       /\ \A i, j \in 1..Len(original) :
            (i < j /\ original[p[i]].start = original[p[j]].start) => p[i] < p[j]

\* C4 (as claimed): the list listEvents returns is the stable sort, ascending by
\* start, of the events concatenated in calendar order and fetch order.
C4_SortedStable ==
  (last.op = "listEvents" /\ client # "null") =>
    IsStableAscending(last.events, Concatenated(last))

\* What does hold of the sort: the same when no returned event has an Invalid Date
\* start.
SortedStableOfValidStarts ==
  (last.op = "listEvents" /\ client # "null"
     /\ \A i \in 1..Len(last.events) : ~last.events[i].start.nan) =>
    IsStableAscending(last.events, Concatenated(last))

\* C5: createEvent takes the calendar whose id equals the requested id when there
\* is one, and only otherwise the first calendar in discovery order whose id
\* contains the requested id or is contained in it; the PUT goes to that calendar.
C5_CreateResolution ==
  (last.op = "createEvent" /\ client # "null") =>
    LET id == Val(last.calendarId)
        matches(c) == Includes(c, id) \/ Includes(id, c)
        n == Len(calendars)
    IN /\ (\E i \in 1..n : calendars[i] = id) => last.resolved = Some(id)
       /\ ((\A i \in 1..n : calendars[i] # id) /\ (\E i \in 1..n : matches(calendars[i]))) =>
            \E i \in 1..n : /\ matches(calendars[i])
                            /\ \A j \in 1..(i - 1) : ~matches(calendars[j])
                            /\ last.resolved = Some(calendars[i])
       /\ IsSome(last.resolved) =>
            /\ Len(last.reqs) = 1
            /\ last.reqs[1].method = "PUT"
            /\ last.reqs[1].cal = Val(last.resolved)
            /\ last.http = 201 =>
                 remote[Locator(Val(last.resolved), last.reqs[1].name)].exists

C5_Witness ==
  /\ last.op = "createEvent"
  /\ calendars = <<HostAbc>>
  /\ last.calendarId = Some(Abc)
  /\ last.resolved = Some(HostAbc)
  /\ last.http = 201
  /\ remote[Locator(HostAbc, "e2")].exists

\* C6 (as claimed): updateEvent and deleteEvent, given a calendar id that equals
\* no known id but contains or is contained in one, go on against that calendar and
\* do not fail with calendar-not-found.
C6_UpdateDeleteResolveLikeCreate ==
  (/\ last.op \in {"updateEvent", "deleteEvent"}
   /\ client # "null"
   /\ ExactCalendar(Val(last.calendarId)) = None
   /\ PartialCalendar(Val(last.calendarId)) # None) =>
    last.error.kind # "CalendarNotFound"

\* C7 (as claimed): a mutation whose calendar id matches no known calendar, exactly
\* or by containment, fails with a calendar-not-found error naming the requested id
\* and every known id, and sends no write or delete request.
C7_NoMatchFailsNamed ==
  (/\ last.op \in Mutations
   /\ client # "null"
   /\ ExactCalendar(Val(last.calendarId)) = None
   /\ PartialCalendar(Val(last.calendarId)) = None) =>
    /\ last.error = ErrCalendarNotFoundNamed(Val(last.calendarId), calendars)
    /\ NoWriteIn(last.reqs)

\* C8 (as claimed): an updateEvent whose etag (the caller's, else the fetched
\* copy's) differs from the event's current etag fails with a conflicting-write
\* error and leaves the event as it was; one whose etag is the current one succeeds
\* and replaces the event.
C8_ConditionalUpdate ==
  (last.op = "updateEvent" /\ IsSome(last.event) /\ last.error.kind # "Transport") =>
    LET current == Val(last.event).etag
        used == UpdateEtag(last.etag, Val(last.event))
    IN /\ used # current =>
            (last.error.kind = "ConflictingWrite" /\ remote[last.eventUrl].etag = current)
       /\ used = current =>
            (last.error = NoError /\ remote[last.eventUrl].etag # current)

\* C9 (as claimed): after a successful updateEvent the refetched event has every
\* supplied field at the supplied value and every other field, status included, at
\* its value before the update.
C9_UpdateMergesOnly ==
  (last.op = "updateEvent" /\ last.error = NoError /\ last.http = 204) =>
    /\ Refetch(last.eventUrl) # None
    /\ LET before == Val(last.event)
           after == Val(Refetch(last.eventUrl))
           p == last.patch
       IN /\ after.summary = IF IsSome(p.summary) THEN Val(p.summary) ELSE before.summary
          /\ after.description = Coalesce(p.description, before.description)
          /\ after.location = Coalesce(p.location, before.location)
          /\ after.start = IF IsSome(p.start) THEN Val(p.start) ELSE before.start
          /\ after.end = IF IsSome(p.end) THEN Val(p.end) ELSE before.end
          /\ after.allDay = IF IsSome(p.allDay) THEN Val(p.allDay) ELSE before.allDay
          /\ after.status = before.status

\* C10 (as claimed): updateEvent, on a logged-in session and with a calendar id
\* that names a known calendar exactly or by containment, on an event url at which
\* the store holds nothing fails with event-not-found, sends no write and leaves the
\* store as it was.
C10_UpdateOfAbsentEvent ==
  [][(/\ last'.op = "updateEvent"
      /\ client = "loggedIn"
      /\ ResolveForCreate(Val(last'.calendarId)) # None
      /\ ~remote[last'.eventUrl].exists) =>
       /\ last'.error.kind = "EventNotFound"
       /\ NoWriteIn(last'.reqs)
       /\ remote' = remote]_vars

\* What does hold of the fetch step: the update of an absent event fails, with
\* event-not-found once the guards on the client and on the exact calendar id have
\* passed, sends no write and leaves the store as it was.
UpdateOfAbsentEventFails ==
  [][(last'.op = "updateEvent" /\ ~remote[last'.eventUrl].exists) =>
       /\ last'.error.kind \in {"NotInitialized", "CalendarNotFound", "EventNotFound"}
       /\ (client # "null" /\ ExactCalendar(Val(last'.calendarId)) # None) =>
            last'.error.kind = "EventNotFound"
       /\ NoWriteIn(last'.reqs)
       /\ remote' = remote]_vars

\* C11 (as claimed): deleteEvent sends one DELETE carrying the caller's etag (the
\* empty token when there is none) and no fetch before it; a delete the server
\* refuses for a stale etag fails with a conflicting-write error and leaves the
\* event in place, and a delete with the empty token removes the event.
C11_ConditionalDelete ==
  (last.op = "deleteEvent" /\ client = "loggedIn" /\ last.error.kind # "Transport") =>
    /\ Len(last.reqs) = 1
    /\ last.reqs[1].method = "DELETE"
    /\ last.reqs[1].ifMatch = last.etag
    /\ last.http = 412 =>
         (last.error.kind = "ConflictingWrite" /\ remote[last.eventUrl].exists)
    /\ last.etag = 0 => ~remote[last.eventUrl].exists

\* What does hold of deleteEvent: the one DELETE with the caller's etag and no
\* fetch, the event left in place by a refused delete and removed by an accepted one.
DeleteSendsOneConditionalRequest ==
  (last.op = "deleteEvent" /\ client = "loggedIn" /\ last.error.kind # "Transport") =>
    /\ Len(last.reqs) = 1
    /\ last.reqs[1].method = "DELETE"
    /\ last.reqs[1].ifMatch = last.etag
    /\ last.http = 412 => remote[last.eventUrl].exists
    /\ last.etag = 0 => ~remote[last.eventUrl].exists

\* C20 (as claimed): for every text over ordinary characters, backslash, semicolon,
\* comma and newline, unescapeICS(escapeICS(text)) is the text, a non-empty summary,
\* description or location carrying it is decoded to it from the encoded event, and
\* the uid comes back as written.
C20_EscapeRoundTrip ==
  codecOut # NotRun =>
    /\ codecOut.unescaped = codecIn
    /\ codecOut.event # None
    /\ Val(codecOut.event).uid = codecOut.uid
    /\ codecIn # <<>> =>
         /\ Val(codecOut.event).summary = codecIn
         /\ Val(codecOut.event).description = Some(codecIn)
         /\ Val(codecOut.event).location = Some(codecIn)

\* What does hold of the two functions: the same for every text in which no
\* backslash stands before an "n".
EscapeRoundTripWithoutBackslashN ==
  (codecOut # NotRun /\ ~Includes(codecIn, <<BS, "n">>)) =>
    /\ codecOut.unescaped = codecIn
    /\ Val(codecOut.event).uid = codecOut.uid
    /\ codecIn # <<>> =>
         /\ Val(codecOut.event).summary = codecIn
         /\ Val(codecOut.event).description = Some(codecIn)
         /\ Val(codecOut.event).location = Some(codecIn)

\* A finished tools/call request of the tool that returned a payload without the
\* error flag.
Succeeded(tool) == result.tool = tool /\ result.pc = "done" /\ ~result.isError

\* C12: check_availability marks a slot unavailable exactly when some event that
\* listEvents returned for the slot has start < slotEnd and end > slotStart; an
\* event ending at slotStart or starting at slotEnd is not among the conflicts.
C12_UnavailableIffOverlap ==
  Succeeded("check_availability") =>
    \A i \in 1..Len(result.body.results) :
      LET entry == result.body.results[i]
          slot == result.args.proposedTimes[i]
          overlaps(e) == ~e.start.nan /\ ~e.end.nan /\ e.start.t < slot[2] /\ e.end.t > slot[1]
          touches(e) == (~e.end.nan /\ e.end.t = slot[1]) \/ (~e.start.nan /\ e.start.t = slot[2])
      IN /\ ~entry.available <=> \E k \in 1..Len(entry.returned) : overlaps(entry.returned[k])
         /\ \A k \in 1..Len(entry.returned) :
              touches(entry.returned[k]) =>
                \A c \in 1..Len(entry.conflicts) :
                  entry.conflicts[c] # [summary |-> entry.returned[k].summary,
                                        start |-> entry.returned[k].start,
                                        end |-> entry.returned[k].end]

C12_Witness ==
  /\ Succeeded("check_availability")
  /\ Len(result.body.results) = 2
  /\ ~result.body.results[1].available
  /\ result.body.results[2].available
  /\ \E k \in 1..Len(result.body.results[2].returned) :
       LET e == result.body.results[2].returned[k]
       IN ~e.end.nan /\ e.end.t = result.body.results[2].proposedStart

\* C13: the check_availability payload has one entry for each proposed slot, in
\* the order given; an entry is available iff it lists no conflict; totalSlots is the
\* number of proposed slots and availableSlots the number of available entries.
C13_AvailabilityCounts ==
  Succeeded("check_availability") =>
    LET results == result.body.results
        proposedTimes == result.args.proposedTimes
    IN /\ Len(results) = Len(proposedTimes)
       /\ \A i \in 1..Len(results) :
            /\ results[i].proposedStart = proposedTimes[i][1]
            /\ results[i].proposedEnd = proposedTimes[i][2]
            /\ results[i].available <=> results[i].conflicts = <<>>
       /\ result.body.totalSlots = Len(proposedTimes)
       /\ result.body.availableSlots =
            Cardinality({i \in 1..Len(results) : results[i].available})

C13_Witness ==
  /\ Succeeded("check_availability")
  /\ result.body.totalSlots = 2
  /\ result.body.availableSlots = 1
  /\ ~result.body.results[1].available
  /\ Len(result.body.results[1].conflicts) > 0

Tier(c) == CASE c = "LOW" -> 0 [] c = "MEDIUM" -> 1 [] c = "HIGH" -> 2

\* C14: detect_scheduling_email returns hasIntent = (k >= 2) or (k >= 1 and t >= 1)
\* and confidence HIGH if k >= 3 and t >= 1, else MEDIUM if k >= 2 or t >= 1, else
\* LOW, for the counts k and t of the mail; and for no larger k or t is the tier
\* lower or the intent lost.
C14_DetectorScoring ==
  Succeeded("detect_scheduling_email") =>
    LET k == result.body.keywordCount
        t == result.body.timePatternCount
    IN /\ result.body.hasSchedulingIntent <=> (k >= 2 \/ (k >= 1 /\ t >= 1))
       /\ (k >= 3 /\ t >= 1) => result.body.confidence = "HIGH"
       /\ (~(k >= 3 /\ t >= 1) /\ (k >= 2 \/ t >= 1)) => result.body.confidence = "MEDIUM"
       /\ (~(k >= 3 /\ t >= 1) /\ ~(k >= 2 \/ t >= 1)) => result.body.confidence = "LOW"
       /\ result.body.timeReferencesFound <=> t >= 1
       /\ \A k2 \in k..(Len(schedulingKeywords) + 1), t2 \in t..Len(timePatterns) :
            /\ Tier(confidence(k2, t2)) >= Tier(result.body.confidence)
            /\ result.body.hasSchedulingIntent => hasSchedulingIntent(k2, t2)

C14_Witness ==
  /\ Succeeded("detect_scheduling_email")
  /\ result.body.keywordCount = 3
  /\ result.body.timePatternCount = 1
  /\ result.body.confidence = "HIGH"
  /\ result.body.hasSchedulingIntent

\* C15 (as claimed): email_to_calendar on a mail in which the detector finds no
\* scheduling intent returns the negative recommendation: neither the preview nor
\* the needs-parsing status.
C15_NoIntentStops ==
  (/\ Succeeded("email_to_calendar")
   /\ ~Detect(Mailbox[result.args.emailId]).hasSchedulingIntent) =>
    result.body.status \notin {"preview", "needs_parsing"}

MailCalls == {"fastmail.initialize", "fastmail.getEmail", "fastmail.getMailboxes"}

C17_StatusFollowsConfirm ==
  Succeeded("email_to_calendar") =>
    result.body.status = IF result.args.confirm = Some(TRUE) THEN "needs_parsing"
                         ELSE "preview"

\* What does hold of the status: the same on a shell that has a calendar.
StatusFollowsConfirmWithCalendar ==
  (Succeeded("email_to_calendar") /\ appPassword) =>
    result.body.status = IF result.args.confirm = Some(TRUE) THEN "needs_parsing"
                         ELSE "preview"

\* C18 (as claimed): without the calendar credential every calendar tool returns
\* the feature-disabled error payload with the error flag set, and nothing is asked
\* of a calendar session.
C18_FeatureDisabled ==
  (~appPassword /\ result.tool \in CalendarTools /\ result.pc = "done") =>
    /\ result.isError
    /\ result.text = "CalendarFeaturesDisabled"
    /\ \A i \in 1..Len(result.calls) : result.calls[i].op \in MailCalls

\* C18, amended: without the calendar credential every calendar tool returns an
\* error payload with the error flag set and nothing is asked of a calendar session;
\* the payload is the feature-disabled error once the mail client is initialized,
\* and the failure of the mail client's initialization otherwise.
C18_FeatureDisabledOnceMailIsUp ==
  (~appPassword /\ result.tool \in CalendarTools) =>
    /\ client = "null"
    /\ \A i \in 1..Len(result.calls) : result.calls[i].op \in MailCalls
    /\ result.pc \notin {"body"}
    /\ result.pc = "done" =>
         /\ result.isError
         /\ result.caught
         /\ IF initialized THEN result.text = "CalendarFeaturesDisabled"
            ELSE result.text = "MailInitializeFailed"

C18_Witness ==
  /\ ~appPassword
  /\ result.tool = "check_availability"
  /\ result.pc = "done"
  /\ initialized
  /\ result.text = "CalendarFeaturesDisabled"

\* C19: every tools/call request ends in a returned payload and no exception leaves
\* the handler; a call that threw, on the mail client or on the calendar session, is
\* the last the handler made, and the payload then is the error text with the error
\* flag set; an unknown tool gets the same.
C19_NeverThrowsNeverRetries ==
  /\ ~result.uncaught
  /\ result.pc = "done" =>
       LET threw == {i \in 1..Len(result.calls) : ~result.calls[i].ok}
       IN /\ threw \subseteq {Len(result.calls)}
          /\ threw # {} => (result.isError /\ result.caught /\ result.text # "")
          /\ result.tool = "no_such_tool" =>
               (result.isError /\ (threw = {} => result.text = "UnknownTool"))
          /\ result.isError => result.text # ""

C19_Witness ==
  /\ result.pc = "done"
  /\ result.tool = "update_event"
  /\ Len(result.calls) = 1
  /\ result.calls[1].op = "updateEvent"
  /\ ~result.calls[1].ok
  /\ result.isError
  /\ result.caught

\* C22 (as claimed): a listEvents on a logged-in session does not raise; an object
\* of a fetched calendar whose start token is no date and no date-time gives no event
\* in the result, and every other object in range of the fetched calendars, with a
\* start and an end that parse, gives one.
C22_UnparsableStartDropped ==
  (last.op = "listEvents" /\ client = "loggedIn") =>
    /\ last.error = NoError
    /\ \A l \in Locators :
         (/\ l.cal \in Range(last.list) \ last.failing
          /\ remote[l].exists
          /\ remote[l].hasData
          /\ ServerInRange(remote[l], last.range[1], last.range[2])) =>
           IF remote[l].data.dtstart.kind \notin {"utc", "float", "date"}
           THEN \A i \in 1..Len(last.events) : last.events[i].url # l
           ELSE HasParsableStart(remote[l]) =>
                  \E i \in 1..Len(last.events) : last.events[i].url = l

\* What does hold of the decoder: no event for an object with no start line or
\* with a start token that is neither eight characters long nor holds a T.
StartWithoutShapeDropped ==
  (last.op = "listEvents" /\ client = "loggedIn") =>
    /\ last.error = NoError
    /\ \A l \in Locators :
         (remote[l].exists /\ remote[l].data.dtstart.kind \in {"empty", "other"}) =>
           \A i \in 1..Len(last.events) : last.events[i].url # l

\* C25 (as claimed): on a logged-in session getEvent returns the absent result, and
\* the fetch step of updateEvent fails with event-not-found, only when the server
\* holds no object at the event url within the calendar: not when the fetch failed
\* in transport and not when the object there does not decode.
C25_AbsentOnlyWhenAbsent ==
  /\ (/\ last.op = "getEvent"
      /\ client = "loggedIn"
      /\ last.error = NoError
      /\ last.event = None) =>
       (last.eventUrl.cal # Val(last.calendarId) \/ ~remote[last.eventUrl].exists)
  /\ (/\ last.op = "updateEvent"
      /\ client = "loggedIn"
      /\ last.error.kind = "EventNotFound") =>
       (last.eventUrl.cal # Val(last.calendarId) \/ ~remote[last.eventUrl].exists)

\* What does hold of getEvent: an event it returns is the decoded object at the
\* event url, and it raises for an unknown calendar id only.
GetEventReturnsStoredObject ==
  (last.op = "getEvent" /\ client = "loggedIn") =>
    /\ last.error.kind \in {"none", "CalendarNotFound"}
    /\ IsSome(last.event) => last.event = Refetch(last.eventUrl)

\* C26 (as claimed): an initialize() that fails on a session that was logged in
\* leaves the logged-in client and the calendar cache it had.
C26_FailedReinitializeKeepsSession ==
  [][(last'.op = "initialize" /\ last'.error # NoError /\ client = "loggedIn") =>
       (client' = "loggedIn" /\ calendars' = calendars)]_vars

\* What does hold of initialize(): a failed call leaves the calendar cache as it
\* was, and a successful one leaves a logged-in client and a discovery list as cache.
InitializeReplacesCache ==
  [][last'.op = "initialize" =>
       IF last'.error # NoError THEN calendars' = calendars
       ELSE client' = "loggedIn" /\ calendars' \in DiscoveryLists]_vars

\* C29 (as claimed): when check_availability reports a slot as available, no event
\* stored in a discovered calendar has start < slotEnd and end > slotStart, also when
\* the fetch of a calendar failed during the check.
C29_AvailableMeansFree ==
  Succeeded("check_availability") =>
    \A i \in 1..Len(result.body.results) :
      result.body.results[i].available =>
        \A l \in Locators :
          (l.cal \in Range(calendars) /\ Refetch(l) # None) =>
            LET e == Val(Refetch(l))
            IN ~(/\ ~e.start.nan
                 /\ ~e.end.nan
                 /\ e.start.t < result.body.results[i].proposedEnd
                 /\ e.end.t > result.body.results[i].proposedStart)

\* C30: on an initialized session, listEvents with a calendar id that equals no
\* cached calendar url returns the empty list, raises nothing and sends no request,
\* and getEvent with such an id fails with calendar-not-found and sends no request;
\* both also when the id contains or is contained in a cached url.
C30_ReadPathExactOnly ==
  /\ (/\ last.op = "listEvents"
      /\ client # "null"
      /\ Truthy(last.calendarId)
      /\ Val(last.calendarId) \notin Range(calendars)) =>
       (last.error = NoError /\ last.events = <<>> /\ last.reqs = <<>>)
  /\ (/\ last.op = "getEvent"
      /\ client # "null"
      /\ Val(last.calendarId) \notin Range(calendars)) =>
       (last.error.kind = "CalendarNotFound" /\ last.event = None /\ last.reqs = <<>>)

C30_Witness ==
  /\ last.op = "listEvents"
  /\ client = "loggedIn"
  /\ last.calendarId = Some(Abc)
  /\ PartialCalendar(Abc) = Some(HostAbc)
  /\ remote[Locator(HostAbc, "e1")].exists
  /\ last.events = <<>>
  /\ last.error = NoError

\* C21 (as claimed): an all-day event from the local midnight of a day to that same
\* midnight, encoded by buildICS and decoded by parseCalendarObject, comes back with
\* allDay set and with start and end at that midnight, in every local time zone.
C21_AllDayRoundTrip ==
  (codecOut # NotRun /\ codecIn.allDay) =>
    /\ codecOut.event # None
    /\ Val(codecOut.event).allDay
    /\ Val(codecOut.event).start = codecIn.start
    /\ Val(codecOut.event).end = codecIn.end

\* What does hold of the date codec: the all-day round trip in a time zone on or
\* west of UTC, date-only tokens and a day-aligned result in every zone, and an event
\* with instants coming back as it was, allDay false.
DateRoundTripOnOrWestOfUtc ==
  codecOut # NotRun =>
    /\ codecOut.event # None
    /\ Val(codecOut.event).allDay = codecIn.allDay
    /\ codecIn.allDay =>
         /\ codecOut.wire.dtstart.kind = "date"
         /\ codecOut.wire.dtend.kind = "date"
         /\ \E d \in -1..MaxDay : Val(codecOut.event).start = MidnightOf(d)
         /\ tz <= 0 => Val(codecOut.event).start = codecIn.start
         /\ tz <= 0 => Val(codecOut.event).end = codecIn.end
    /\ ~codecIn.allDay =>
         /\ Val(codecOut.event).start = codecIn.start
         /\ Val(codecOut.event).end = codecIn.end

\* The handlers that are inside initialize(), and those that wait for the server
\* inside another operation on the session.
Initializing == {p \in Procs : tasks[p].pc \in {"login", "discover"}}
Operating == {p \in Procs : tasks[p].pc \in {"fetch", "put"}}

\* C23 (as claimed): under any interleaving of tools/call requests at most one
\* initialize() is in flight on the calendar session, and none while another
\* operation on the session is in flight.
C23_InitializeSerialized ==
  /\ Cardinality(Initializing) <= 1
  /\ Initializing # {} => Operating = {}

\* What does hold of the flag: once calendarInitialized is set no handler enters
\* initialize(), and before the first initialize() has been called no operation is
\* under way.
NoInitializeOnceFlagSet ==
  [][\A p \in Procs :
       /\ (calendarInitialized /\ tasks'[p].pc = "login") => tasks[p].pc = "login"
       /\ client' = "null" => tasks'[p].pc \in {"idle", "ensureCalendar"}]_vars

\* A handler of update_event that has returned without an error.
UpdateReportedDone(p) ==
  tasks[p].pc = "done" /\ tasks[p].tool = "update_event" /\ tasks[p].error = NoError

\* C24 (as claimed): no update is lost silently when updates interleave: an
\* update_event that returns without a conflict error has had its write accepted,
\* and accepted in place of the very version it had fetched and merged over.
C24_NoSilentlyLostUpdate ==
  \A p \in Procs :
    UpdateReportedDone(p) => tasks[p].replaced = Val(tasks[p].existing).etag

\* What does hold of interleaved updates: a write the server accepts replaces the
\* version the handler had fetched, never a later one.
AcceptedWriteReplacesFetchedVersion ==
  \A p \in Procs :
    (UpdateReportedDone(p) /\ tasks[p].replaced # 0) =>
      tasks[p].replaced = Val(tasks[p].existing).etag

\* C27 (as claimed): every event that createEvent or updateEvent has written to
\* the server has start <= end.
C27_WrittenStartBeforeEnd ==
  \A l \in Locators :
    (remote[l].exists /\ remote[l] # RemoteAtStart[l]) =>
      /\ Refetch(l) # None
      /\ ~Val(Refetch(l)).start.nan
      /\ ~Val(Refetch(l)).end.nan
      /\ Val(Refetch(l)).start.t <= Val(Refetch(l)).end.t

\* C28: createEvent draws the uid before its write, writes it in the object, names
\* the resource by it and returns it; and no write replaces a stored object by one
\* with another uid, so an event keeps the uid it was created with through every
\* update.
C28_UidStable ==
  [][/\ \A p \in Procs :
          (tasks[p].pc = "call" /\ tasks'[p].pc = "put" /\ tasks[p].tool = "create_event") =>
            LET c == Val(tasks'[p].created)
            IN /\ remote' = remote
               /\ Val(tasks'[p].put).ics.uid = c.uid
               /\ Val(tasks'[p].put).loc = c.eventUrl
               /\ c.eventUrl.name = c.uid
     /\ \A p \in Procs :
          (/\ tasks[p].pc = "put"
           /\ tasks'[p].pc = "done"
           /\ tasks[p].tool = "create_event"
           /\ tasks'[p].http = 201) =>
            LET c == Val(tasks'[p].created)
            IN /\ tasks'[p].created = tasks[p].created
               /\ remote'[c.eventUrl].exists
               /\ remote'[c.eventUrl].data.uid = c.uid
     /\ \A l \in Locators :
          (remote[l].exists /\ remote'[l].exists) =>
            remote'[l].data.uid = remote[l].data.uid]_vars

C28_Witness ==
  /\ \E p \in Procs : UpdateReportedDone(p) /\ tasks[p].eventUrl = Locator(HostAbc, "e2")
                      /\ tasks[p].replaced # 0
  /\ ~RemoteAtStart[Locator(HostAbc, "e2")].exists
  /\ remote[Locator(HostAbc, "e2")].exists
  /\ remote[Locator(HostAbc, "e2")].data.uid = "e2"
  /\ remote[Locator(HostAbc, "e2")].data.summary = Some(escapeICS(TextB))

====
